---- MODULE Spec2Model ----
(***************************************************************************)
(* A model of the game-processing driver of pgn-extract:                   *)
(*   - the parse loop and the per-game driver (pgne/src/grammar.c),        *)
(*   - the end-of-run JSON closing done by main (pgne/src/main.c),         *)
(*   - the recursive-descent game parser over a token stream               *)
(*     (pgne/src/grammar.c, parse_game and the functions it calls).        *)
(* Output sinks are modelled as sequences of items: a game is the item     *)
(* <<"game", n>> where n is the ordinal of the game in the input, JSON     *)
(* punctuation is "[", "," and "]", and the comments the driver writes     *)
(* ahead of a duplicate are <<"From", f>> and <<"FirstFound", f>>.         *)
(***************************************************************************)
EXTENDS Integers, Sequences, FiniteSets, TLC

(***************************************************************************)
(* Bounds of the model.                                                    *)
(***************************************************************************)
MaxGames == 3
NumFingerprints == 2
NumFiles == 2
MaxGamesPerFile == 2
MaxFirstGame == 2
MaxRange == 2
NumEco == 2
MaxLexemes == 4

(***************************************************************************)
(* Program constants.                                                      *)
(***************************************************************************)
\* StateInfo.next_file_number as initialised in GlobalState.
DefaultFileNumber == 1
\* ECO_level value DONT_DIVIDE.
DONT_DIVIDE == 0

NORMALFILE == "NORMALFILE"
CHECKFILE == "CHECKFILE"
\* A NULL file name (no earlier occurrence, no input file seen yet).
NoFile == 0

VARIABLES
  cfg,      \* the option fields of StateInfo, fixed once the arguments are read
  st,       \* the fields of StateInfo the driver changes, and the output sinks
  cur,      \* the game most recently handed to deal_with_game, with its locals
  curfile,  \* index of the input file being read
  ngames,   \* number of games read from the input so far
  pc,       \* "parse": in parse_opt_game_list; "end": yyparse has returned;
            \* "done": main has finished
  input,    \* the tokens the lexer yields for the input (parser model)
  parser,   \* the parser's statics: current_symbol, RAV_level; and the log
  parsed,   \* what the latest call of parse_game produced
  swapped,  \* the two input files of a run and the driver state of the run
            \* that reads them in the other order
  writer,   \* the line writer of output.c: output_line, what reached fp, and
            \* the number of messages it sent to the log file
  tagout,   \* the tag section of a game being output: the options, the
            \* game's tags and the tags emitted
  material, \* the material matcher at work on a game: the criterion, the
            \* positions of the game and the search of look_for_material_match
  matcher,  \* check_textual_variations (moves.c): games_to_keep, the game's moves
            \* and the verdict
  fenmatch, \* the FEN pattern matcher (fenmatcher.c): the pattern tree, the
            \* board and the verdict of pattern_match_board
  argsfile  \* the reading of the arguments (argsfile.c): the lines of an args file or
            \* the flags of a command line, what they set and how the reading ended

\* The variables of the driver and the parser, and those of the units that
\* are modelled on their own.
driverVars == <<cfg, st, cur, curfile, ngames, pc, input, parser, parsed, swapped>>
unitVars == <<writer, tagout, material, matcher, fenmatch, argsfile>>
\* What the actions of one unit leave alone.
besideWriter == <<driverVars, tagout, material, matcher, fenmatch, argsfile>>
besideTags == <<driverVars, writer, material, matcher, fenmatch, argsfile>>
besideMaterial == <<driverVars, writer, tagout, matcher, fenmatch, argsfile>>
besideVariation == <<driverVars, writer, tagout, material, fenmatch, argsfile>>
besideFen == <<driverVars, writer, tagout, material, matcher, argsfile>>
besideArgs == <<driverVars, writer, tagout, material, matcher, fenmatch>>
vars == <<driverVars, unitVars>>

\* The value of a variable the specification at hand does not use.
Unused == <<>>

(***************************************************************************)
(* The filter predicates of deal_with_game, in the order of the code.      *)
(***************************************************************************)
Preds ==
  << "consistent_FEN_tags", "check_tag_details_not_ECO", "check_setup_tag",
     "check_duplicate_setup", "apply_move_list", "check_move_bounds",
     "check_textual_variations", "check_for_material_match",
     "check_for_only_checkmate", "check_for_only_repetition",
     "check_ECO_tag", "check_for_comments" >>

PredSet == {Preds[i] : i \in 1..Len(Preds)}

\* The verdicts the predicates return for one game: all accept, exactly one
\* rejects, or all reject.
Verdicts ==
  {[p \in PredSet |-> TRUE], [p \in PredSet |-> FALSE]}
    \cup {[p \in PredSet |-> p # q] : q \in PredSet}

(***************************************************************************)
(* Sinks.  A handle names a main-output file: <<"std", 0>> is the stream   *)
(* outputfile starts as (stdout, or the file of -o/-a), <<"num", n>> the   *)
(* file "<n>.pgn" of -#, <<"eco", e>> the file of ECO section e of -E.     *)
(***************************************************************************)
StdOut == <<"std", 0>>
NumFile(n) == <<"num", n>>
EcoFile(e) == <<"eco", e>>

EcoCodes == 1..NumEco

Handles ==
  {StdOut} \cup {NumFile(n) : n \in DefaultFileNumber..(DefaultFileNumber + MaxGames)}
           \cup {EcoFile(e) : e \in EcoCodes}

GameItem(n) == <<"game", n>>
Open == <<"[", 0>>
Comma == <<",", 0>>
Close == <<"]", 0>>
FromComment(f) == <<"From", f>>
FirstFoundComment(f) == <<"FirstFound", f>>

IsGame(item) == item[1] = "game"

\* fputs / print_str of one item on a stream.
Put(s, item) == Append(s, item)

\* The mutant: the lower end of the range is not looked at.
InGameNumberRangeUpTo(number, list, ix) ==
  /\ ix <= Len(list)
  /\ number <= list[ix].max

(***************************************************************************)
(* in_game_number_range: a range list is a sequence of [min, max] records, *)
(* the pointer into it an index; an index past the end is the NULL pointer.*)
(***************************************************************************)
InGameNumberRange(number, list, ix) ==
  /\ ix <= Len(list)
  /\ list[ix].min <= number
  /\ number <= list[ix].max

(***************************************************************************)
(* The conjunction of filter predicates at the head of deal_with_game.     *)
(* v[p] is the value predicate p returns for the game.                     *)
(***************************************************************************)
WantedDroppingLast(v) ==
  /\ v["consistent_FEN_tags"]
  /\ v["check_tag_details_not_ECO"]
  /\ v["check_setup_tag"]
  /\ v["check_duplicate_setup"]
  /\ v["apply_move_list"]
  /\ v["check_move_bounds"]
  /\ v["check_textual_variations"]
  /\ v["check_for_material_match"]
  /\ v["check_for_only_checkmate"]
  /\ v["check_for_only_repetition"]
  /\ v["check_ECO_tag"]

Wanted(v) ==
  /\ v["consistent_FEN_tags"]
  /\ v["check_tag_details_not_ECO"]
  /\ v["check_setup_tag"]
  /\ v["check_duplicate_setup"]
  /\ v["apply_move_list"]
  /\ v["check_move_bounds"]
  /\ v["check_textual_variations"]
  /\ v["check_for_material_match"]
  /\ v["check_for_only_checkmate"]
  /\ v["check_for_only_repetition"]
  /\ v["check_ECO_tag"]
  /\ v["check_for_comments"]

(***************************************************************************)
(* The duplicate hash store: the first occurrence of a fingerprint is      *)
(* recorded with the name of its file; a later occurrence reports it.      *)
(***************************************************************************)
PreviousOccurance(table, fp) == table[fp]

RecordOccuranceFirstFileOnly(table, fp, file) ==
  IF table[fp] = NoFile /\ file = 1 THEN [table EXCEPT ![fp] = file] ELSE table

RecordOccurance(table, fp, file) ==
  IF table[fp] = NoFile THEN [table EXCEPT ![fp] = file] ELSE table

(***************************************************************************)
(* finished_processing: the conditions that end the parse loop early.      *)
(***************************************************************************)
FinishedProcessing(c, s) ==
  \/ /\ c.matching_game_numbers # <<>>
     /\ s.next_game_number_to_output > Len(c.matching_game_numbers)
  \/ /\ c.maximum_matches > 0
     /\ s.num_games_matched = c.maximum_matches
  \/ s.num_games_processed >= c.game_limit

(***************************************************************************)
(* select_output_file.  It is called after num_games_matched has been      *)
(* incremented for the game.  globals and GameState are the same record,   *)
(* so the "\n]\n" goes to the file being closed and the "[\n" to the file  *)
(* just opened.  Opening "<n>.pgn" for writing truncates it.               *)
(***************************************************************************)
TimeToOpenNext(c, s) ==
  \/ c.games_per_file = 1
  \/ (s.num_games_matched % c.games_per_file) = 1

SelectOutputFile(c, s, g) ==
  IF c.games_per_file > 0
  THEN IF TimeToOpenNext(c, s)
       THEN LET terminated ==
                  IF c.json_format /\ s.num_games_matched # 1
                  THEN [s.files EXCEPT ![s.outputfile] = Put(@, Close)]
                  ELSE s.files
                next == NumFile(s.next_file_number)
                opened == [terminated EXCEPT ![next] = <<>>]
            IN [s EXCEPT !.outputfile = next,
                         !.next_file_number = @ + 1,
                         !.files = IF c.json_format
                                   THEN [opened EXCEPT ![next] = Put(@, Open)]
                                   ELSE opened]
       ELSE s
  ELSE IF c.ECO_level > DONT_DIVIDE
       THEN [s EXCEPT !.outputfile = EcoFile(g.eco)]
       ELSE IF c.json_format /\ s.num_games_matched = 1
            THEN [s EXCEPT !.files = [@ EXCEPT ![s.outputfile] = Put(@, Open)]]
            ELSE s

(***************************************************************************)
(* print_algebraic_game, as far as the sinks see it: in JSON mode a comma  *)
(* decided from num_games_matched, then the game.  output_game and         *)
(* format_game pass the game on to it (one item stands for everything      *)
(* emitted for the game, split-out variations included).                   *)
(***************************************************************************)
CommaNeeded(c, s) ==
  IF c.games_per_file = 0
  THEN s.num_games_matched > 1
  ELSE c.games_per_file > 1 /\ (s.num_games_matched % c.games_per_file) # 1

PrintAlgebraicGameFirst(c, s, stream, g) ==
  <<GameItem(g.ord)>> \o stream

PrintAlgebraicGame(c, s, stream, g) ==
  IF c.json_format /\ CommaNeeded(c, s)
  THEN Put(Put(stream, Comma), GameItem(g.ord))
  ELSE Put(stream, GameItem(g.ord))

OutputGame(c, s, stream, g) == PrintAlgebraicGame(c, s, stream, g)

(***************************************************************************)
(* deal_with_game, the part that writes a game selected for output:        *)
(* select_output_file, then the duplicates file with its comments when the *)
(* game is a duplicate and -d was given, then output_game unless           *)
(* --suppressmatched.  last_input_file is the function's static variable.  *)
(***************************************************************************)
FirstFoundNever(c) == FALSE

FirstFoundWanted(c) == c.keep_comments

WriteSelectedGame(c, s, g, original_filename) ==
  LET s1 == SelectOutputFile(c, s, g)
      separated == original_filename # NoFile /\ c.duplicate_file
      new_input_file == s1.last_input_file # g.file /\ g.file # NoFile
      dup1 == IF separated /\ new_input_file /\ c.keep_comments
              THEN Put(s1.duplicates, FromComment(g.file))
              ELSE s1.duplicates
      dup2 == IF separated /\ FirstFoundWanted(c)
              THEN Put(dup1, FirstFoundComment(original_filename))
              ELSE dup1
      s2 == [s1 EXCEPT !.duplicates = dup2,
                       !.last_input_file =
                          IF separated /\ new_input_file THEN g.file ELSE @]
  IN IF c.suppress_matched
     THEN s2
     ELSE IF separated
          THEN [s2 EXCEPT !.duplicates = OutputGame(c, s2, @, g)]
          ELSE [s2 EXCEPT !.files =
                   [@ EXCEPT ![s2.outputfile] = OutputGame(c, s2, @, g)]]

(***************************************************************************)
(* deal_with_game, the part that keeps a game that did not match (-n).     *)
(* g.moves_ok is what apply_move_list leaves in moves_ok for the game.     *)
(***************************************************************************)
WriteNonMatching(c, s, g) ==
  IF g.moves_ok \/ c.keep_broken_games
  THEN LET started ==
             IF c.json_format
             THEN IF s.num_non_matching_games = 0
                  THEN Put(s.non_matching, Open)
                  ELSE Put(s.non_matching, Comma)
             ELSE s.non_matching
           s1 == [s EXCEPT !.num_non_matching_games = @ + 1]
       IN [s1 EXCEPT !.non_matching = OutputGame(c, s1, started, g)]
  ELSE s

(***************************************************************************)
(* deal_with_game.  c is the configuration, s the driver state before the  *)
(* call, g the game: g.ord its ordinal in the input, g.file and g.ftype    *)
(* the input file it was read from and that file's type, g.fp its          *)
(* duplicate fingerprint, g.verdict the values of the filter predicates,   *)
(* g.eco its ECO section.  The result is the driver state after the call.  *)
(* s.flagged collects the fingerprints for which previous_occurance named  *)
(* an earlier file.                                                        *)
(***************************************************************************)
CountProcessedAlways(s, g) ==
  [s EXCEPT !.num_games_processed = @ + 1]

CountProcessed(s, g) ==
  IF g.ftype # CHECKFILE
  THEN [s EXCEPT !.num_games_processed = @ + 1]
  ELSE s

KeptAfterDuplicateCheckAll(c, original_filename) == TRUE

KeptAfterDuplicateCheck(c, original_filename) ==
  /\ ~(original_filename = NoFile /\ c.suppress_originals)
  /\ (original_filename = NoFile \/ ~c.suppress_duplicates)

DealWithGame(c, s, g) ==
  LET s1 == CountProcessed(s, g)
      wanted == Wanted(g.verdict)
      original_filename ==
        IF wanted THEN PreviousOccurance(s1.LogTable, g.fp) ELSE NoFile
      s2 == IF wanted
            THEN [s1 EXCEPT !.LogTable = RecordOccurance(@, g.fp, g.file),
                            !.flagged = IF original_filename # NoFile
                                        THEN @ \cup {g.fp} ELSE @]
            ELSE s1
      game_matches ==
        /\ wanted
        /\ KeptAfterDuplicateCheck(c, original_filename)
        /\ g.ftype # CHECKFILE
        /\ s2.num_games_processed >= c.first_game_number
      s3 == IF game_matches
            THEN [s2 EXCEPT !.num_games_matched = @ + 1]
            ELSE s2
      not_selected ==
        /\ c.matching_game_numbers # <<>>
        /\ ~InGameNumberRange(s3.num_games_matched, c.matching_game_numbers,
                              s3.next_game_number_to_output)
      skipped ==
        /\ ~not_selected
        /\ c.skip_game_numbers # <<>>
        /\ InGameNumberRange(s3.num_games_matched, c.skip_game_numbers,
                             s3.next_game_number_to_skip)
      s4 == IF /\ game_matches
               /\ skipped
               /\ s3.num_games_matched =
                    c.skip_game_numbers[s3.next_game_number_to_skip].max
            THEN [s3 EXCEPT !.next_game_number_to_skip = @ + 1]
            ELSE s3
      output_the_game ==
        game_matches /\ ~not_selected /\ ~skipped /\ ~c.check_only
      s5 == IF output_the_game
            THEN WriteSelectedGame(c, s4, g, original_filename)
            ELSE s4
      s6 == IF ~game_matches /\ c.non_matching_file /\ g.ftype # CHECKFILE
            THEN WriteNonMatching(c, s5, g)
            ELSE s5
      s7 == IF /\ game_matches
               /\ c.matching_game_numbers # <<>>
               /\ InGameNumberRange(s6.num_games_matched,
                                    c.matching_game_numbers,
                                    s6.next_game_number_to_output)
               /\ s6.num_games_matched =
                    c.matching_game_numbers[s6.next_game_number_to_output].max
            THEN [s6 EXCEPT !.next_game_number_to_output = @ + 1]
            ELSE s6
  IN s7

(***************************************************************************)
(* The end of main: in JSON mode the arrays still open are closed.         *)
(***************************************************************************)
MainFinish(c, s) ==
  IF c.json_format /\ ~c.check_only
  THEN LET s1 == IF s.num_games_matched > 0
                 THEN [s EXCEPT !.files =
                          [@ EXCEPT ![s.outputfile] = Put(@, Close)]]
                 ELSE s
       IN IF c.non_matching_file /\ s1.num_non_matching_games > 0
          THEN [s1 EXCEPT !.non_matching = Put(@, Close)]
          ELSE s1
  ELSE s

(***************************************************************************)
(* Configurations.  Defaults are the initial values of GlobalState; a      *)
(* field for a file is TRUE when the file was given (the pointer is not    *)
(* NULL).  file_types lists the input files in command-line order.         *)
(***************************************************************************)
\* game_limit starts as ~0: more than any number of games a run reads.
NoGameLimit == MaxGames + MaxLexemes + 1

Defaults ==
  [ suppress_duplicates |-> FALSE, suppress_originals |-> FALSE,
    duplicate_file |-> FALSE, non_matching_file |-> FALSE,
    json_format |-> FALSE, check_only |-> FALSE, suppress_matched |-> FALSE,
    keep_comments |-> TRUE, keep_broken_games |-> FALSE,
    games_per_file |-> 0, next_file_number |-> DefaultFileNumber,
    ECO_level |-> DONT_DIVIDE,
    first_game_number |-> 1, game_limit |-> NoGameLimit,
    maximum_matches |-> 0, lichess_comment_fix |-> FALSE,
    keep_only_commented_games |-> FALSE,
    split_variants |-> FALSE, keep_variations |-> TRUE,
    split_depth_limit |-> 0,
    matching_game_numbers |-> <<>>, skip_game_numbers |-> <<>>,
    file_types |-> [f \in 1..NumFiles |-> NORMALFILE] ]

\* The adjustment main makes for --json once the arguments are read.
MainAdjust(c) ==
  IF c.json_format
  THEN IF c.ECO_level = DONT_DIVIDE
       THEN [c EXCEPT !.keep_comments = FALSE]
       ELSE [c EXCEPT !.json_format = FALSE]
  ELSE c

\* Combinations process_argument refuses (it exits): -D with -d, -# with -E.
Accepted(c) ==
  /\ ~(c.suppress_duplicates /\ c.duplicate_file)
  /\ ~(c.games_per_file > 0 /\ c.ECO_level > DONT_DIVIDE)
  /\ c.first_game_number <= c.game_limit

\* Range lists as extract_game_number_list builds them: ascending, disjoint.
Range(lo, hi) == [min |-> lo, max |-> hi]

RangeLists ==
  {<<>>}
    \cup {<<Range(a, b)>> : a \in 1..MaxRange, b \in 1..MaxRange}
    \cup {<<Range(a, a), Range(b, b)>> : a \in 1..MaxRange, b \in 1..MaxRange}

WellFormedRanges(l) ==
  /\ \A i \in 1..Len(l) : l[i].min >= 1 /\ l[i].min <= l[i].max
  /\ \A i \in 1..(Len(l) - 1) : l[i].max < l[i + 1].min

GameNumberLists == {l \in RangeLists : WellFormedRanges(l)}

FileTypeLists == [1..NumFiles -> {NORMALFILE, CHECKFILE}]

\* The three ways duplicates are treated, with and without -U.
DuplicateModes ==
  {<<d, u, f>> \in BOOLEAN \X BOOLEAN \X BOOLEAN : ~(d /\ f)}

InitialState(c) ==
  [ num_games_processed |-> 0, num_games_matched |-> 0,
    num_non_matching_games |-> 0,
    next_file_number |-> c.next_file_number,
    outputfile |-> StdOut,
    next_game_number_to_output |-> 1, next_game_number_to_skip |-> 1,
    LogTable |-> [fp \in 1..NumFingerprints |-> NoFile],
    last_input_file |-> NoFile,
    files |-> [h \in Handles |-> <<>>],
    duplicates |-> <<>>, non_matching |-> <<>>,
    flagged |-> {} ]

NoGame ==
  [ ord |-> 0, file |-> NoFile, ftype |-> NORMALFILE, fp |-> 0,
    moves_ok |-> TRUE, eco |-> 0, accepted |-> FALSE,
    processed_before |-> 0, matched_before |-> 0, earlier_file |-> NoFile ]

\* The games the parser may hand over next: game number n, read from file f.
\* The attributes no option of c looks at are not varied: the ECO section
\* without -E, the legality of the moves without -n.
GamesAt(c, n, f) ==
  { [ ord |-> n, file |-> f, ftype |-> c.file_types[f], fp |-> fp,
      moves_ok |-> ok, eco |-> e, verdict |-> v ] :
      fp \in 1..NumFingerprints,
      ok \in IF c.non_matching_file THEN BOOLEAN ELSE {TRUE},
      e \in IF c.ECO_level > DONT_DIVIDE THEN EcoCodes ELSE {1},
      v \in Verdicts }

\* A game whose moves are not legal is rejected by apply_move_list unless
\* broken games are kept.

Legal(c, g) ==
  (~g.moves_ok /\ ~c.keep_broken_games) => ~g.verdict["apply_move_list"]

\* What cur keeps of a game handed to deal_with_game: the game, whether every
\* predicate accepted it, and the counters and the hash store's entry for its
\* fingerprint as they were when deal_with_game was entered.
Seen(g, s) ==
  [ ord |-> g.ord, file |-> g.file, ftype |-> g.ftype, fp |-> g.fp,
    moves_ok |-> g.moves_ok, eco |-> g.eco,
    accepted |-> \A p \in PredSet : g.verdict[p],
    processed_before |-> s.num_games_processed,
    matched_before |-> s.num_games_matched,
    earlier_file |-> s.LogTable[g.fp] ]

(***************************************************************************)
(* The game parser.  A token is <<type, tag_index>>: its TokenType and,    *)
(* for a TAG, the tag it names ("" otherwise).  A comment is known by the  *)
(* position of its COMMENT token in the input, a move by the position of   *)
(* its MOVE token.  A NULL list is <<>>, a NULL Move or Variation pointer  *)
(* a sequence of no element.  MOVE tokens of the model are not null moves, *)
(* and the strings of its tags are not "", "?" or "1/2".                   *)
(***************************************************************************)
TAG == "TAG"
\* The token type STRING (the name is taken in TLA+).
STRING_TOKEN == "STRING"
TAG_END == "TAG_END"
COMMENT == "COMMENT"
MOVE == "MOVE"
MOVE_NUMBER == "MOVE_NUMBER"
NAG == "NAG"
CHECK_SYMBOL == "CHECK_SYMBOL"
RAV_START == "RAV_START"
RAV_END == "RAV_END"
TERMINATING_RESULT == "TERMINATING_RESULT"
EOF_TOKEN == "EOF_TOKEN"
NO_TOKEN == "NO_TOKEN"

RESULT_TAG == "Result"
EVENT_TAG == "Event"
TagNames == {EVENT_TAG, RESULT_TAG}

\* A tag slot of game_header->Tags: NULL, the string read for the tag, or
\* the copy of the terminating result check_result stores.
NullTag == "NULL"
TagString == "string"
ResultCopy == "terminating_result"

NoTags == [name \in TagNames |-> NullTag]

\* The parser's statics before yyparse: the lookahead is NO_TOKEN (nt), p is
\* the position of the token last read, nothing is logged.
StartOfInput == [p |-> 0, nt |-> TRUE, RAV_level |-> 0, log |-> <<>>]

CurrentSymbol(toks, ps) ==
  IF ps.nt THEN NO_TOKEN
  ELSE IF ps.p > Len(toks) THEN EOF_TOKEN
  ELSE toks[ps.p][1]

\* next_token: the lexer yields the following token, EOF_TOKEN from the end
\* of the input on.
NextToken(toks, ps) ==
  [ps EXCEPT !.p = IF ps.nt \/ ps.p <= Len(toks) THEN ps.p + 1 ELSE ps.p,
             !.nt = FALSE]

\* fprintf(globals->logfile, ...)
Logged(ps, message) == [ps EXCEPT !.log = Append(@, message)]

\* The tokens at which a game can start: a comment, a tag, an initial NAG,
\* a move number or a move.
GameStartTokens == {COMMENT, TAG, NAG, MOVE_NUMBER, MOVE}

\* skip_to_next_game: junk between games is read over.
RECURSIVE SkipToNextGame(_, _)
SkipToNextGame(toks, ps) ==
  IF CurrentSymbol(toks, ps) \in GameStartTokens \cup {EOF_TOKEN}
  THEN ps
  ELSE SkipToNextGame(toks, NextToken(toks, ps))

\* append_comment: item goes to the end of list.
AppendCommentDropping(item, list) == list

AppendComment(item, list) == list \o item

MergeCommentLists(prefix, suffix) == prefix \o suffix

RECURSIVE ParseOptCommentList(_, _)
ParseOptCommentList(toks, ps) ==
  IF CurrentSymbol(toks, ps) = COMMENT
  THEN LET rest == ParseOptCommentList(toks, NextToken(toks, ps))
       IN [ps |-> rest.ps, list |-> <<ps.p>> \o rest.list]
  ELSE [ps |-> ps, list |-> <<>>]

ParseTag(toks, ps, Tags) ==
  IF CurrentSymbol(toks, ps) = TAG
  THEN LET tag_index == toks[ps.p][2]
           ps1 == NextToken(toks, ps)
           has_string == CurrentSymbol(toks, ps1) = STRING_TOKEN
           ps2 == IF has_string
                  THEN NextToken(toks, ps1)
                  ELSE Logged(ps1, "Missing tag string.")
           ps3 == IF CurrentSymbol(toks, ps2) = TAG_END
                  THEN NextToken(toks, ps2)
                  ELSE Logged(ps2, "Missing ]")
       IN [ps |-> ps3, found |-> TRUE,
           Tags |-> IF has_string
                    THEN [Tags EXCEPT ![tag_index] = TagString]
                    ELSE Tags]
  ELSE IF CurrentSymbol(toks, ps) = STRING_TOKEN
       THEN LET ps1 == NextToken(toks, Logged(ps, "Missing tag for string."))
                ps2 == IF CurrentSymbol(toks, ps1) = TAG_END
                       THEN NextToken(toks, ps1)
                       ELSE ps1
            IN [ps |-> ps2, found |-> TRUE, Tags |-> Tags]
       ELSE [ps |-> ps, found |-> FALSE, Tags |-> Tags]

\* The loop of parse_opt_tag_list.
RECURSIVE ParseTags(_, _, _)
ParseTags(toks, ps, Tags) ==
  LET tag == ParseTag(toks, ps, Tags)
  IN IF tag.found THEN ParseTags(toks, tag.ps, tag.Tags) ELSE tag

\* parse_opt_tag_list: the tags, then the comments that follow them, which
\* become game_header->prefix_comment.
ParseOptTagList(toks, ps, Tags) ==
  LET tags == ParseTags(toks, ps, Tags)
      prefix_comment == ParseOptCommentList(toks, tags.ps)
  IN [ps |-> prefix_comment.ps, Tags |-> tags.Tags,
      prefix_comment |-> prefix_comment.list]

ParseOptMoveNumber(toks, ps) ==
  IF CurrentSymbol(toks, ps) = MOVE_NUMBER THEN NextToken(toks, ps) ELSE ps

ParseMoveUnit(toks, ps) ==
  IF CurrentSymbol(toks, ps) = MOVE
  THEN LET ps1 == NextToken(toks, ps)
           ps2 == IF CurrentSymbol(toks, ps1) = CHECK_SYMBOL
                  THEN LET ps1a == NextToken(toks, ps1)
                       IN IF CurrentSymbol(toks, ps1a) = CHECK_SYMBOL
                          THEN NextToken(toks, ps1a)
                          ELSE ps1a
                  ELSE ps1
           comment_list == ParseOptCommentList(toks, ps2)
       IN [ps |-> comment_list.ps,
           move |-> << [ at |-> ps.p, comment_list |-> comment_list.list,
                         NAGs |-> <<>>, Variants |-> <<>>,
                         terminating_result |-> FALSE ] >>]
  ELSE [ps |-> ps, move |-> <<>>]

\* The do-while of parse_opt_NAG_list: a run of NAG tokens is one Nag.
RECURSIVE SkipNAGs(_, _)
SkipNAGs(toks, ps) ==
  IF CurrentSymbol(toks, ps) = NAG
  THEN SkipNAGs(toks, NextToken(toks, ps))
  ELSE ps

RECURSIVE ParseOptNAGList(_, _)
ParseOptNAGList(toks, ps) ==
  IF CurrentSymbol(toks, ps) = NAG
  THEN LET comments == ParseOptCommentList(toks, SkipNAGs(toks, ps))
           rest == ParseOptNAGList(toks, comments.ps)
       IN [ps |-> rest.ps,
           NAGs |-> <<[comments |-> comments.list]>> \o rest.NAGs]
  ELSE [ps |-> ps, NAGs |-> <<>>]

ParseMove(toks, ps) ==
  LET unit == ParseMoveUnit(toks, ParseOptMoveNumber(toks, ps))
  IN IF unit.move # <<>>
     THEN LET nags == ParseOptNAGList(toks, unit.ps)
          IN [ps |-> nags.ps,
              move |-> <<[unit.move[1] EXCEPT !.NAGs = nags.NAGs]>>]
     ELSE unit

ParseResult(toks, ps) ==
  IF CurrentSymbol(toks, ps) = TERMINATING_RESULT
  THEN [found |-> TRUE,
        ps |-> IF ps.RAV_level = 0
               THEN [ps EXCEPT !.nt = TRUE]
               ELSE NextToken(toks, ps)]
  ELSE [found |-> FALSE, ps |-> ps]

RECURSIVE ParseMoveList(_, _, _)
RECURSIVE ParseMoveAndVariants(_, _, _)
RECURSIVE ParseOptVariantList(_, _, _)
RECURSIVE ParseVariant(_, _, _)

\* parse_move_list once parse_move_and_variants has read the head of the
\* list: the rest of the list is linked behind it.
MoveListAfter(c, toks, head) ==
  IF head.move # <<>>
  THEN LET rest == ParseMoveList(c, toks, head.ps)
       IN [ps |-> rest.ps, moves |-> head.move \o rest.moves]
  ELSE [ps |-> head.ps, moves |-> <<>>]

ParseMoveList(c, toks, ps) ==
  MoveListAfter(c, toks, ParseMoveAndVariants(c, toks, ps))

\* parse_move_and_variants once the variations of the move are read: the
\* comments that follow them are appended to the move's comment list.
MoveWithVariants(toks, move, variants) ==
  LET comment == ParseOptCommentList(toks, variants.ps)
  IN [ps |-> comment.ps,
      move |-> << [move EXCEPT
                     !.Variants = variants.list,
                     !.comment_list =
                        IF comment.list # <<>>
                        THEN AppendComment(comment.list, @)
                        ELSE @] >>]

\* parse_move_and_variants once parse_move has returned.
MoveAndVariantsAfter(c, toks, move_details) ==
  IF move_details.move # <<>>
  THEN MoveWithVariants(toks, move_details.move[1],
                        ParseOptVariantList(c, toks, move_details.ps))
  ELSE move_details

ParseMoveAndVariants(c, toks, ps) ==
  MoveAndVariantsAfter(c, toks, ParseMove(toks, ps))

\* parse_opt_variant_list once parse_variant has returned.
VariantListAfter(c, toks, variation) ==
  IF variation.variation # <<>>
  THEN LET rest == ParseOptVariantList(c, toks, variation.ps)
       IN [ps |-> rest.ps, list |-> variation.variation \o rest.list]
  ELSE [ps |-> variation.ps, list |-> <<>>]

ParseOptVariantList(c, toks, ps) ==
  VariantListAfter(c, toks, ParseVariant(c, toks, ps))

\* parse_variant from the closing of the variation on: RAV_END is expected,
\* and the comments after it are the variation's suffix comment.
VariantClose(toks, prefix_comment, moves, ps) ==
  LET ps3 == IF CurrentSymbol(toks, ps) = RAV_END
             THEN NextToken(toks, [ps EXCEPT !.RAV_level = @ - 1])
             ELSE Logged(ps, "Missing ')' to close variation.")
      suffix == ParseOptCommentList(toks, ps3)
  IN [ps |-> suffix.ps,
      variation |-> << [ prefix_comment |-> prefix_comment,
                         suffix_comment |-> suffix.list,
                         moves |-> moves ] >>]

\* parse_variant once its result is looked for: a variation may end in a
\* result, and the comments after the result go to its last move.
VariantResult(toks, prefix_comment, moves1, result) ==
  LET terminated == result.found /\ moves1 # <<>>
      trailing == IF terminated
                  THEN ParseOptCommentList(toks, result.ps)
                  ELSE [ps |-> result.ps, list |-> <<>>]
      moves2 == IF terminated
                THEN [moves1 EXCEPT
                        ![Len(moves1)].terminating_result = TRUE,
                        ![Len(moves1)].comment_list =
                           IF trailing.list # <<>>
                           THEN AppendComment(trailing.list, @)
                           ELSE @]
                ELSE moves1
  IN VariantClose(toks, prefix_comment, moves2, trailing.ps)

\* parse_variant once the moves of the variation are read.
VariantMoves(c, toks, prefix, list) ==
  LET ps2 == IF list.moves = <<>>
             THEN Logged(list.ps, "Missing move list in variation.")
             ELSE list.ps
      fix == /\ list.moves # <<>>
             /\ c.lichess_comment_fix
             /\ prefix # <<>>
      moves1 == IF fix
                THEN [list.moves EXCEPT ![1].comment_list =
                        MergeCommentLists(prefix, @)]
                ELSE list.moves
  IN VariantResult(toks, IF fix THEN <<>> ELSE prefix, moves1,
                   ParseResult(toks, ps2))

ParseVariant(c, toks, ps) ==
  IF CurrentSymbol(toks, ps) = RAV_START
  THEN LET ps1 == NextToken(toks, [ps EXCEPT !.RAV_level = @ + 1])
           prefix == ParseOptCommentList(toks, ps1)
       IN VariantMoves(c, toks, prefix.list,
                       ParseMoveList(c, toks, prefix.ps))
  ELSE [ps |-> ps, variation |-> <<>>]

\* check_result: a missing Result tag is filled in from the terminating
\* result.
CheckResult(Tags, result_found) ==
  IF result_found /\ Tags[RESULT_TAG] = NullTag
  THEN [Tags EXCEPT ![RESULT_TAG] = ResultCopy]
  ELSE Tags

\* parse_game.  The result holds the statics after the call (ps), the value
\* returned (ret), the game header (Tags, prefix_comment), the move list as
\* parsed (move_list), what is stored through returned_move_list, and for
\* the properties: where the game started, the comments freed ahead of the
\* tags, the hanging comment, the position of the terminating result (0 if
\* there is none), and whether "Missing result." was logged.  GameMoves is
\* parse_game from the hanging comment on, the move list being read.
GameMoves(toks, start, freed, header, list) ==
  LET hanging_comment == ParseOptCommentList(toks, list.ps)
      result == ParseResult(toks, hanging_comment.ps)
      n == Len(list.moves)
      with_comment ==
        IF n > 0 /\ hanging_comment.list # <<>>
        THEN [list.moves EXCEPT ![n].comment_list =
                AppendComment(hanging_comment.list, @)]
        ELSE list.moves
      move_list ==
        IF n > 0 /\ result.found
        THEN [with_comment EXCEPT ![n].terminating_result = TRUE]
        ELSE with_comment
      missing == n > 0 /\ ~result.found
  IN [ ps |-> IF missing THEN Logged(result.ps, "Missing result.") ELSE result.ps,
       ret |-> CurrentSymbol(toks, result.ps) # EOF_TOKEN,
       start |-> start,
       freed |-> freed,
       Tags |-> IF missing THEN header.Tags
                ELSE CheckResult(header.Tags, result.found),
       prefix_comment |-> header.prefix_comment,
       move_list |-> move_list,
       returned_move_list |-> IF n > 0 /\ result.found THEN move_list ELSE <<>>,
       hanging_comment |-> hanging_comment.list,
       result_at |-> IF result.found THEN hanging_comment.ps.p ELSE 0,
       missing_result |-> missing ]

ParseGame(c, toks, ps) ==
  LET ps0 == SkipToNextGame(toks, ps)
      freed == ParseOptCommentList(toks, ps0)
      header == ParseOptTagList(toks, freed.ps, NoTags)
  IN GameMoves(toks, ps0.p, freed.list, header,
               ParseMoveList(c, toks, SkipNAGs(toks, header.ps)))

\* setup_for_new_game
SetupForNewGame(ps) == [ps EXCEPT !.RAV_level = 0]

\* Nothing parsed yet.
NoParse ==
  [ start |-> 0, freed |-> <<>>, Tags |-> NoTags, prefix_comment |-> <<>>,
    move_list |-> <<>>, returned_move_list |-> <<>>,
    hanging_comment |-> <<>>, result_at |-> 0, missing_result |-> FALSE,
    RAV_level |-> 0, ret |-> FALSE, handed |-> FALSE ]

\* What parsed keeps of a call of parse_game, with RAV_level as the call
\* left it and whether the game was handed to deal_with_game.
Outcome(r, handed) ==
  [ start |-> r.start, freed |-> r.freed, Tags |-> r.Tags,
    prefix_comment |-> r.prefix_comment, move_list |-> r.move_list,
    returned_move_list |-> r.returned_move_list,
    hanging_comment |-> r.hanging_comment, result_at |-> r.result_at,
    missing_result |-> r.missing_result, RAV_level |-> r.ps.RAV_level,
    ret |-> r.ret, handed |-> handed ]

(***************************************************************************)
(* Actions.                                                                *)
(***************************************************************************)
\* One iteration of the loop of parse_opt_game_list: parse_game returned
\* true with a game, processing is not finished, deal_with_game is called.
\* The lexer moves to a later input file when the current one is exhausted.
ParseOptGameList ==
  /\ pc = "parse"
  /\ ngames < MaxGames
  /\ ~FinishedProcessing(cfg, st)
  /\ \E f \in curfile..NumFiles :
       \E g \in GamesAt(cfg, ngames + 1, f) :
         /\ Legal(cfg, g)
         /\ st' = DealWithGame(cfg, st, g)
         /\ cur' = Seen(g, st)
         /\ curfile' = f
  /\ ngames' = ngames + 1
  /\ UNCHANGED <<cfg, pc, input, parser, parsed, swapped>>
  /\ UNCHANGED unitVars

\* The loop ends: parse_game met the end of the input, or
\* finished_processing holds after a game was parsed; yyparse returns.
LoopExit ==
  /\ pc = "parse"
  /\ pc' = "end"
  /\ UNCHANGED <<cfg, st, cur, curfile, ngames, input, parser, parsed, swapped>>
  /\ UNCHANGED unitVars

\* main after yyparse.
Main ==
  /\ pc = "end"
  /\ st' = MainFinish(cfg, st)
  /\ pc' = "done"
  /\ UNCHANGED <<cfg, cur, curfile, ngames, input, parser, parsed, swapped>>
  /\ UNCHANGED unitVars

Next == ParseOptGameList \/ LoopExit \/ Main

\* No pair of files: the run reads its input once, in one order.
NoSwap == [first |-> <<>>, second |-> <<>>, st |-> <<>>]

\* No unit is exercised on its own.
WriterIdle == writer = Unused

TagsIdle == tagout = Unused

MaterialIdle == material = Unused

VariationIdle == matcher = Unused

FenIdle == fenmatch = Unused

ArgsIdle == argsfile = Unused

UnitsIdle == WriterIdle /\ TagsIdle /\ MaterialIdle /\ VariationIdle /\ FenIdle /\ ArgsIdle

InitDriver(configs) ==
  /\ cfg \in configs
  /\ st = InitialState(cfg)
  /\ cur = NoGame
  /\ curfile = 1
  /\ ngames = 0
  /\ pc = "parse"
  /\ UnitsIdle

\* The driver on its own: games arrive already parsed, no token stream.
InitWith(configs) ==
  /\ InitDriver(configs)
  /\ input = <<>>
  /\ parser = StartOfInput
  /\ parsed = NoParse
  /\ swapped = NoSwap

(***************************************************************************)
(* Spec: duplicate handling, check files, -n, --firstgame, -C, -r and      *)
(* --suppressmatched, one main output stream.                              *)
(***************************************************************************)
Configs ==
  { MainAdjust([Defaults EXCEPT
       !.suppress_duplicates = m[1], !.suppress_originals = m[2],
       !.duplicate_file = m[3], !.non_matching_file = n,
       !.keep_comments = k, !.first_game_number = first,
       !.check_only = r[1], !.suppress_matched = r[2],
       !.file_types = ft]) :
      m \in DuplicateModes, n \in BOOLEAN, k \in BOOLEAN,
      first \in 1..MaxFirstGame,
      r \in {<<FALSE, FALSE>>, <<TRUE, FALSE>>, <<FALSE, TRUE>>},
      ft \in FileTypeLists }

Init == InitWith({c \in Configs : Accepted(c)})

Spec == Init /\ [][Next]_vars

(***************************************************************************)
(* SpecSplit: where the games go and how JSON arrays are bracketed, under  *)
(* --json, -# (with a base file number), -E, --selectonly, --skipmatching, *)
(* -n and -d.                                                              *)
(***************************************************************************)
\* <<json_format, games_per_file, next_file_number, ECO_level>>
OutputShapes ==
  {<<j, 0, DefaultFileNumber, DONT_DIVIDE>> : j \in BOOLEAN}
    \cup {<<j, n, b, DONT_DIVIDE>> :
            j \in BOOLEAN, n \in 1..MaxGamesPerFile,
            b \in {DefaultFileNumber, DefaultFileNumber + 1}}
    \cup {<<FALSE, 0, DefaultFileNumber, 1>>}

SplitConfigs ==
  { MainAdjust([Defaults EXCEPT
       !.json_format = o[1], !.games_per_file = o[2],
       !.next_file_number = o[3], !.ECO_level = o[4],
       !.matching_game_numbers = sel, !.skip_game_numbers = skip,
       !.non_matching_file = n, !.duplicate_file = d]) :
      o \in OutputShapes, sel \in GameNumberLists, skip \in GameNumberLists,
      n \in BOOLEAN, d \in BOOLEAN }

InitSplit == InitWith({c \in SplitConfigs : Accepted(c)})

SpecSplit == InitSplit /\ [][Next]_vars

(***************************************************************************)
(* SpecParse: parse_opt_game_list over a token stream, with the default    *)
(* options.  The input is a sequence of lexemes: a well-formed tag pair    *)
(* (TAG STRING TAG_END), a variation of one move (RAV_START MOVE RAV_END)  *)
(* or a single token of any other type.                                    *)
(***************************************************************************)
Tok(type) == <<type, "">>

TagLexeme(name) == << <<TAG, name>>, Tok(STRING_TOKEN), Tok(TAG_END) >>

VariationLexeme == <<Tok(RAV_START), Tok(MOVE), Tok(RAV_END)>>

Lexemes ==
  {TagLexeme(name) : name \in TagNames}
    \cup {VariationLexeme}
    \cup {<<Tok(type)>> :
            type \in {COMMENT, MOVE, MOVE_NUMBER, NAG, CHECK_SYMBOL,
                      RAV_START, RAV_END, TERMINATING_RESULT}}

RECURSIVE Flatten(_)
Flatten(lexemes) ==
  IF lexemes = <<>> THEN <<>> ELSE Head(lexemes) \o Flatten(Tail(lexemes))

Inputs ==
  {Flatten(l) : l \in UNION {[1..n -> Lexemes] : n \in 0..MaxLexemes}}

\* --lichesscommentfix matters only to an input that holds a variation.
ParseConfigs(toks) ==
  { [Defaults EXCEPT !.lichess_comment_fix = fix] :
      fix \in IF \E i \in 1..Len(toks) : toks[i][1] = RAV_START
              THEN BOOLEAN ELSE {FALSE} }

\* The duplicate fingerprint of a parsed game: every MOVE token of the model
\* has the same text, so the main line's length decides it.
MovesFingerprint(moves) == (Len(moves) % NumFingerprints) + 1

\* The game deal_with_game receives from a call of parse_game; with the
\* default options every filter predicate accepts it.
GameOf(c, r, n) ==
  [ ord |-> n, file |-> 1, ftype |-> c.file_types[1],
    fp |-> MovesFingerprint(r.returned_move_list),
    moves_ok |-> TRUE, eco |-> 1, verdict |-> [p \in PredSet |-> TRUE] ]

\* One iteration of the loop of parse_opt_game_list: parse_game returns
\* true and processing is not finished; deal_with_game, setup_for_new_game.
DealWithParsedGame(r, g) ==
  /\ r.ret
  /\ ~FinishedProcessing(cfg, st)
  /\ st' = DealWithGame(cfg, st, g)
  /\ cur' = Seen(g, st)
  /\ parser' = SetupForNewGame(r.ps)
  /\ parsed' = Outcome(r, TRUE)

DealWithParsed(r) == DealWithParsedGame(r, GameOf(cfg, r, ngames + 1))

ParseAndDeal ==
  /\ pc = "parse"
  /\ DealWithParsed(ParseGame(cfg, input, parser))
  /\ ngames' = ngames + 1
  /\ UNCHANGED <<cfg, curfile, pc, input, swapped>>
  /\ UNCHANGED unitVars

\* The loop of parse_opt_game_list ends: parse_game returns false (the
\* lookahead is EOF_TOKEN) or processing is finished.  What parse_game
\* parsed is not dealt with.
LeaveParsed(r) ==
  /\ ~(r.ret /\ ~FinishedProcessing(cfg, st))
  /\ parser' = r.ps
  /\ parsed' = Outcome(r, FALSE)

ParseEnd ==
  /\ pc = "parse"
  /\ LeaveParsed(ParseGame(cfg, input, parser))
  /\ pc' = "end"
  /\ UNCHANGED <<cfg, st, cur, curfile, ngames, input, swapped>>
  /\ UNCHANGED unitVars

NextParse == ParseAndDeal \/ ParseEnd \/ Main

\* yyparse: setup_for_new_game, then skip_to_next_game from NO_TOKEN.
InitParse ==
  /\ input \in Inputs
  /\ InitDriver(ParseConfigs(input))
  /\ parser = SkipToNextGame(input, StartOfInput)
  /\ parsed = NoParse
  /\ swapped = NoSwap

SpecParse == InitParse /\ [][NextParse]_vars

(***************************************************************************)
(* SpecSwap: one run over two input files and the run over the same two    *)
(* files in the other order, under the duplicate options and the options   *)
(* that end processing early (--stopafter, --gamelimit, --selectonly).     *)
(* A file is the sequence of its games; a game of a file is its            *)
(* fingerprint and whether the filter predicates accept it.                *)
(***************************************************************************)
FileGames ==
  {[fp |-> fp, accepted |-> a] : fp \in 1..NumFingerprints, a \in BOOLEAN}

FilesUpTo(n) == UNION {[1..k -> FileGames] : k \in 0..n}

\* Two files holding MaxGames games at most between them.
FilePairs ==
  {<<a, b>> \in FilesUpTo(MaxGames) \X FilesUpTo(MaxGames) :
     Len(a) + Len(b) <= MaxGames}

\* The games of file number f as the parser hands them over, the first of
\* them being game number from + 1 of the run.
GamesOfFile(c, games, f, from) ==
  [i \in 1..Len(games) |->
     [ ord |-> from + i, file |-> f, ftype |-> c.file_types[f],
       fp |-> games[i].fp, moves_ok |-> TRUE, eco |-> 1,
       verdict |-> [p \in PredSet |-> games[i].accepted] ]]

\* The loop of parse_opt_game_list over games i, i + 1, ... of the input.
RECURSIVE ParseLoop(_, _, _, _)
ParseLoop(c, s, games, i) ==
  IF i > Len(games) \/ FinishedProcessing(c, s)
  THEN s
  ELSE ParseLoop(c, DealWithGame(c, s, games[i]), games, i + 1)

\* A whole run over the files in the order given: yyparse, then main.
RunOver(c, games) == MainFinish(c, ParseLoop(c, InitialState(c), games, 1))

\* The options that end processing before the input does, one at a time:
\* --stopafter n, --gamelimit n, --selectonly 1:n.
EarlyStops ==
  {<<0, NoGameLimit, <<>> >>}
    \cup {<<n, NoGameLimit, <<>> >> : n \in 1..MaxRange}
    \cup {<<0, n, <<>> >> : n \in 1..MaxRange}
    \cup {<<0, NoGameLimit, <<Range(1, n)>> >> : n \in 1..MaxRange}

\* -D and -U, alone and together; -d changes only where a duplicate is
\* written.
SwapConfigs ==
  { MainAdjust([Defaults EXCEPT
       !.suppress_duplicates = m[1], !.suppress_originals = m[2],
       !.maximum_matches = e[1], !.game_limit = e[2],
       !.matching_game_numbers = e[3]]) :
      m \in {d \in DuplicateModes : ~d[3]}, e \in EarlyStops }

\* Both runs: file 1 then file 2, and file 2 then file 1.
RunBothOrders ==
  /\ pc = "parse"
  /\ st' = RunOver(cfg, GamesOfFile(cfg, swapped.first, 1, 0)
                          \o GamesOfFile(cfg, swapped.second, 2, Len(swapped.first)))
  /\ swapped' =
       [swapped EXCEPT !.st =
          RunOver(cfg, GamesOfFile(cfg, swapped.second, 2, 0)
                         \o GamesOfFile(cfg, swapped.first, 1, Len(swapped.second)))]
  /\ ngames' = Len(swapped.first) + Len(swapped.second)
  /\ pc' = "done"
  /\ UNCHANGED <<cfg, cur, curfile, input, parser, parsed>>
  /\ UNCHANGED unitVars

NextSwap == RunBothOrders

InitSwap ==
  /\ InitDriver({c \in SwapConfigs : Accepted(c)})
  /\ \E pair \in FilePairs :
       swapped = [first |-> pair[1], second |-> pair[2], st |-> InitialState(cfg)]
  /\ input = <<>>
  /\ parser = StartOfInput
  /\ parsed = NoParse

SpecSwap == InitSwap /\ [][NextSwap]_vars

(***************************************************************************)
(* Vocabulary of the properties.                                           *)
(***************************************************************************)
\* The ordinals of the games a stream holds, in the order written.
RECURSIVE GameOrds(_)
GameOrds(stream) ==
  IF stream = <<>>
  THEN <<>>
  ELSE IF IsGame(Head(stream))
       THEN <<Head(stream)[2]>> \o GameOrds(Tail(stream))
       ELSE GameOrds(Tail(stream))

Increasing(ords) == \A i \in 1..(Len(ords) - 1) : ords[i] < ords[i + 1]

\* A game has been dealt with (cur is the latest one).
Dealt == cur.ord > 0

\* The latest game is held by one of the main output files.
InMainOutput ==
  \E h \in Handles :
    \E i \in 1..Len(st.files[h]) : st.files[h][i] = GameItem(cur.ord)

\* C1: a game rejected by any filter predicate is neither counted as matched
\* nor written to the main output; a game every predicate accepts is counted
\* as matched unless the duplicate rules, a check file or --firstgame exclude it.
C1_AcceptedIffAllPredicatesAccept ==
  Dealt =>
    /\ ~cur.accepted =>
         /\ st.num_games_matched = cur.matched_before
         /\ ~InMainOutput
    /\ ( /\ cur.accepted
         /\ KeptAfterDuplicateCheck(cfg, cur.earlier_file)
         /\ cur.ftype # CHECKFILE
         /\ st.num_games_processed >= cfg.first_game_number )
         => st.num_games_matched = cur.matched_before + 1

C1_Witness ==
  /\ cur.ord >= 2
  /\ ~cur.accepted
  /\ st.num_games_matched >= 1
  /\ \E h \in Handles : Len(GameOrds(st.files[h])) >= 1

\* C3 as stated: every game dealt with increases num_games_processed by one,
\* and the counters only ever change by an increase of one.
C3_EveryGameCounted ==
  Dealt =>
    /\ st.num_games_processed = cur.processed_before + 1
    /\ st.num_games_matched \in {cur.matched_before, cur.matched_before + 1}

\* C3 amended: neither counter ever decreases and each changes only by an
\* increase of one; a game read from a file that is not a check file
\* increases num_games_processed by one; a game read from a check file
\* changes neither counter.
C3_CountersMonotonic ==
  Dealt =>
    /\ st.num_games_matched \in {cur.matched_before, cur.matched_before + 1}
    /\ IF cur.ftype # CHECKFILE
       THEN st.num_games_processed = cur.processed_before + 1
       ELSE /\ st.num_games_processed = cur.processed_before
            /\ st.num_games_matched = cur.matched_before

C3_Witness ==
  /\ cur.ord >= 2
  /\ cur.ftype = CHECKFILE
  /\ cur.accepted
  /\ st.num_games_processed >= 1
  /\ st.num_games_matched >= 1

\* C4: with -D, a game whose fingerprint an earlier game recorded is not
\* written to the main output and does not increment num_games_matched.
C4_DuplicateSuppressed ==
  (Dealt /\ cfg.suppress_duplicates /\ cur.earlier_file # NoFile) =>
    /\ st.num_games_matched = cur.matched_before
    /\ ~InMainOutput

C4_Witness ==
  /\ cfg.suppress_duplicates
  /\ cur.ord >= 2
  /\ cur.accepted
  /\ cur.ftype # CHECKFILE
  /\ cur.earlier_file # NoFile
  /\ cur.earlier_file # cur.file
  /\ st.num_games_matched = 1
  /\ \E h \in Handles : GameOrds(st.files[h]) = <<1>>

\* The ordinals of the games of the main output: the numbered files of -# in
\* the order of their numbers when -# is in force, else the one stream.
RECURSIVE NumberedOrds(_, _)
NumberedOrds(s, n) ==
  IF n > DefaultFileNumber + MaxGames
  THEN <<>>
  ELSE GameOrds(s.files[NumFile(n)]) \o NumberedOrds(s, n + 1)

\* C2: in every output sink (each main output file, and the numbered files of
\* -# taken in the order of their numbers; the duplicates file; the
\* non-matching file) the games stand in the order in which they were
\* encountered in the input, within one input file and across input files.
C2_OutputInInputOrder ==
  /\ \A h \in Handles : Increasing(GameOrds(st.files[h]))
  /\ Increasing(NumberedOrds(st, DefaultFileNumber))
  /\ Increasing(GameOrds(st.duplicates))
  /\ Increasing(GameOrds(st.non_matching))

C2_Witness ==
  /\ cur.file = NumFiles
  /\ \E n \in DefaultFileNumber..(DefaultFileNumber + MaxGames - 1) :
       /\ GameOrds(st.files[NumFile(n)]) # <<>>
       /\ GameOrds(st.files[NumFile(n + 1)]) # <<>>
  /\ \/ Len(GameOrds(st.duplicates)) >= 2
     \/ Len(GameOrds(st.non_matching)) >= 2
     \/ \E h \in Handles : Len(GameOrds(st.files[h])) >= 2

\* The latest game is the last item of the duplicates file.
LastInDuplicates ==
  /\ st.duplicates # <<>>
  /\ st.duplicates[Len(st.duplicates)] = GameItem(cur.ord)

\* The latest game is the last item of the duplicates file and the item
\* before it is the comment naming the file of the first occurrence.
PrecededByFirstFound ==
  /\ Len(st.duplicates) >= 2
  /\ LastInDuplicates
  /\ st.duplicates[Len(st.duplicates) - 1] = FirstFoundComment(cur.earlier_file)

\* The latest game is one deal_with_game selects for output when no
\* --selectonly / --skipmatching list is given.
SelectedForOutput ==
  /\ cur.accepted
  /\ KeptAfterDuplicateCheck(cfg, cur.earlier_file)
  /\ cur.ftype # CHECKFILE
  /\ st.num_games_processed >= cfg.first_game_number
  /\ ~cfg.check_only
  /\ ~cfg.suppress_matched

\* C5 as stated: with -d, every accepted game whose fingerprint an earlier
\* game recorded is written to the duplicates file instead of the main
\* output, immediately preceded there by the First-found-in comment.
C5_DuplicateWrittenWithComment ==
  (Dealt /\ cfg.duplicate_file /\ cur.accepted /\ cur.earlier_file # NoFile) =>
    /\ ~InMainOutput
    /\ PrecededByFirstFound

\* C5 amended: with -d, an accepted game whose fingerprint an earlier game
\* recorded is never written to the main output; when it is selected for
\* output it is written to the duplicates file, and there it is immediately
\* preceded by the First-found-in comment exactly when comments are kept;
\* when comments are not kept the duplicates file holds no such comment.
C5_DuplicateWrittenCommentIfKept ==
  /\ (Dealt /\ cfg.duplicate_file /\ cur.accepted /\ cur.earlier_file # NoFile) =>
       /\ ~InMainOutput
       /\ SelectedForOutput =>
            /\ LastInDuplicates
            /\ cfg.keep_comments => PrecededByFirstFound
  /\ ~cfg.keep_comments =>
       \A i \in 1..Len(st.duplicates) : st.duplicates[i][1] # "FirstFound"

C5_Witness ==
  /\ cfg.duplicate_file
  /\ cfg.keep_comments
  /\ SelectedForOutput
  /\ cur.earlier_file # NoFile
  /\ cur.earlier_file # cur.file
  /\ PrecededByFirstFound
  /\ \E h \in Handles : GameOrds(st.files[h]) # <<>>

\* A stream is one JSON array: "[", the games separated by single commas,
\* and "]".
IsArray(stream) ==
  LET k == Len(GameOrds(stream))
  IN /\ Len(stream) = 2 * k + 1
     /\ stream[1] = Open
     /\ stream[Len(stream)] = Close
     /\ \A i \in 1..k : IsGame(stream[2 * i])
     /\ \A i \in 1..(k - 1) : stream[2 * i + 1] = Comma

\* C9: in JSON mode, at the end of the run, every main output file (the
\* single stream, each file of -#) and the non-matching file that received
\* a game is a well-bracketed array: one "[" before its first game, one
\* comma between consecutive games, one "]" after its last game.
C9_JsonWellBracketed ==
  (pc = "done" /\ cfg.json_format) =>
    /\ \A h \in Handles :
         GameOrds(st.files[h]) # <<>> => IsArray(st.files[h])
    /\ GameOrds(st.non_matching) # <<>> => IsArray(st.non_matching)

\* The number of games numbered file n holds.
GamesIn(n) == Len(GameOrds(st.files[NumFile(n)]))

FileNumbers == DefaultFileNumber..(DefaultFileNumber + MaxGames)

\* C10: with -# N every game of the main output is in a numbered file, the
\* files used are numbered consecutively from the base number, none holds
\* more than N games, and each one before the last holds exactly N.
C10_ExactlyNPerFile ==
  cfg.games_per_file > 0 =>
    /\ GameOrds(st.files[StdOut]) = <<>>
    /\ \A n \in FileNumbers :
         /\ GamesIn(n) <= cfg.games_per_file
         /\ GamesIn(n) > 0 => n >= cfg.next_file_number
         /\ (\E m \in FileNumbers : m > n /\ GamesIn(m) > 0)
              => (n >= cfg.next_file_number => GamesIn(n) = cfg.games_per_file)

\* C7: a game whose move list is not followed by a terminating result is
\* handed to deal_with_game with its parsed moves, and "Missing result." is
\* reported for it only when it has no Result tag.
C7_MissingResultRetained ==
  (parsed.move_list # <<>> /\ parsed.result_at = 0) =>
    /\ parsed.handed
    /\ parsed.returned_move_list = parsed.move_list
    /\ parsed.missing_result => parsed.Tags[RESULT_TAG] = NullTag

\* The type of the token at position i of the input.
TokenAt(i) ==
  IF i >= 1 /\ i <= Len(input) THEN input[i][1] ELSE EOF_TOKEN

\* The positions of the comments that stand in a row from position i on.
RECURSIVE CommentsFrom(_)
CommentsFrom(i) ==
  IF TokenAt(i) = COMMENT THEN <<i>> \o CommentsFrom(i + 1) ELSE <<>>

\* The positions of the comments that stand in a row up to position i.
RECURSIVE CommentsUpTo(_)
CommentsUpTo(i) ==
  IF TokenAt(i) = COMMENT THEN CommentsUpTo(i - 1) \o <<i>> ELSE <<>>

\* The position after the tags that stand in a row from position i on.
RECURSIVE AfterTags(_)
AfterTags(i) == IF TokenAt(i) = TAG THEN AfterTags(i + 3) ELSE i

IsSuffix(run, list) ==
  /\ Len(run) <= Len(list)
  /\ SubSeq(list, Len(list) - Len(run) + 1, Len(list)) = run

InList(i, list) == \E k \in 1..Len(list) : list[k] = i

\* Comment i is attached to the move: in its comment list, in the comments
\* of one of its NAGs, or in the suffix comment of one of its variations.
AttachedTo(i, move) ==
  \/ InList(i, move.comment_list)
  \/ \E k \in 1..Len(move.NAGs) : InList(i, move.NAGs[k].comments)
  \/ \E k \in 1..Len(move.Variants) : InList(i, move.Variants[k].suffix_comment)

\* parse_game found moves and a terminating result for the latest game.
Terminated == parsed.move_list # <<>> /\ parsed.result_at > 0

LastMove == parsed.move_list[Len(parsed.move_list)]

\* C8 as stated: the comments between the last move and the terminating
\* result are attached to the last move, and every comment of the game that
\* stands before its first move is in the game's prefix comment.
C8_CommentsAttached ==
  /\ Terminated =>
       \A k \in 1..Len(CommentsUpTo(parsed.result_at - 1)) :
         AttachedTo(CommentsUpTo(parsed.result_at - 1)[k], LastMove)
  /\ parsed.move_list # <<>> =>
       \A i \in parsed.start..(parsed.move_list[1].at - 1) :
         TokenAt(i) = COMMENT => InList(i, parsed.prefix_comment)

\* C8 amended: the comments directly before the terminating result are
\* attached to the last move of the main line; when no variation of the
\* game is left unclosed they are at the end of its comment list if they
\* follow the move, its check symbols or a move number, the comments of its
\* last NAG if they follow a NAG, the suffix comment of its last variation
\* if they follow the variation.  The comments that follow the tag section
\* become the prefix comment; the comments ahead of the tag section, and all
\* leading comments of a game without tags, are discarded.
C8_CommentPlacement ==
  parsed.start > 0 =>
    /\ parsed.freed = CommentsFrom(parsed.start)
    /\ LET tags_at == parsed.start + Len(parsed.freed)
       IN parsed.prefix_comment =
            IF AfterTags(tags_at) > tags_at
            THEN CommentsFrom(AfterTags(tags_at))
            ELSE <<>>
    /\ Terminated =>
         LET run == CommentsUpTo(parsed.result_at - 1)
             before == TokenAt(parsed.result_at - Len(run) - 1)
         IN /\ \A k \in 1..Len(run) : AttachedTo(run[k], LastMove)
            /\ (run # <<>> /\ parsed.RAV_level = 0) =>
                 /\ before \in {MOVE, CHECK_SYMBOL, MOVE_NUMBER, NAG, RAV_END}
                 /\ before \in {MOVE, CHECK_SYMBOL, MOVE_NUMBER} =>
                      IsSuffix(run, LastMove.comment_list)
                 /\ before = NAG =>
                      /\ LastMove.NAGs # <<>>
                      /\ LastMove.NAGs[Len(LastMove.NAGs)].comments = run
                 /\ before = RAV_END =>
                      /\ LastMove.Variants # <<>>
                      /\ LastMove.Variants[Len(LastMove.Variants)].suffix_comment = run

C8_Witness ==
  /\ parsed.handed
  /\ Terminated
  /\ parsed.hanging_comment # <<>>
  /\ IsSuffix(parsed.hanging_comment, LastMove.comment_list)
  /\ parsed.Tags[RESULT_TAG] = ResultCopy

\* Both runs have ended.
BothRunsDone == pc = "done" /\ swapped # NoSwap

\* C6 as stated: the run over two files and the run over the same files in
\* swapped order flag the same set of fingerprints as duplicates.
C6_SwapStable ==
  BothRunsDone => st.flagged = swapped.st.flagged

\* C6 amended: when both runs deal with every game of both files (no option
\* ends either of them early), they flag the same set of fingerprints as
\* duplicates; the file recorded as holding the original may differ.
C6_SwapStableWhenAllRead ==
  ( /\ BothRunsDone
    /\ st.num_games_processed = ngames
    /\ swapped.st.num_games_processed = ngames )
    => st.flagged = swapped.st.flagged

C6_Witness ==
  /\ BothRunsDone
  /\ st.num_games_processed = ngames
  /\ swapped.st.num_games_processed = ngames
  /\ st.flagged # {}
  /\ st.flagged = swapped.st.flagged
  /\ st.LogTable # swapped.st.LogTable

(***************************************************************************)
(* The line writer of output.c.  A string is a sequence of characters; the *)
(* characters that matter are the space, the newline and any other one.    *)
(* line_length is Len(output_line).  fp is what has been written to the    *)
(* output file, logfile counts the messages written to the log file.       *)
(***************************************************************************)
MaxLineLength == 3
MaxTokenLen == 3
MaxWrites == 4

SPACE == " "
NEWLINE == "\n"
LETTER == "a"

\* The driver stands still while a unit is exercised on its own.
DriverIdle ==
  /\ cfg = Defaults
  /\ st = InitialState(Defaults)
  /\ cur = NoGame
  /\ curfile = 1
  /\ ngames = 0
  /\ pc = "done"
  /\ input = <<>>
  /\ parser = StartOfInput
  /\ parsed = NoParse
  /\ swapped = NoSwap

\* set_output_line_length
SetOutputLineLength(length) ==
  [max_line_length |-> length, output_line |-> <<>>, fp |-> <<>>,
   logfile |-> 0, calls |-> 0]

\* The loop of terminate_line that deletes trailing spaces.
RECURSIVE DeleteTrailingSpaces(_)
DeleteTrailingSpaces(line) ==
  IF Len(line) >= 1 /\ line[Len(line)] = SPACE
  THEN DeleteTrailingSpaces(SubSeq(line, 1, Len(line) - 1))
  ELSE line

TerminateLineKeepingSpaces(w) ==
  IF w.max_line_length = 0
  THEN [w EXCEPT !.fp = Append(@, NEWLINE)]
  ELSE IF w.output_line # <<>>
       THEN [w EXCEPT !.fp = @ \o w.output_line \o <<NEWLINE>>,
                      !.output_line = <<>>]
       ELSE w

TerminateLine(w) ==
  IF w.max_line_length = 0
  THEN [w EXCEPT !.fp = Append(@, NEWLINE)]
  ELSE IF DeleteTrailingSpaces(w.output_line) # <<>>
       THEN [w EXCEPT !.fp = @ \o DeleteTrailingSpaces(w.output_line)
                                \o <<NEWLINE>>,
                      !.output_line = <<>>]
       ELSE [w EXCEPT !.output_line = <<>>]

CheckLineLength(w, len) ==
  IF Len(w.output_line) + len > w.max_line_length /\ w.max_line_length # 0
  THEN TerminateLine(w)
  ELSE w

\* The line once check_line_length has made room.
AddChar(w, ch) == [w EXCEPT !.output_line = Append(@, ch)]

PrintSingleChar(w, ch) ==
  IF w.max_line_length = 0
  THEN [w EXCEPT !.fp = Append(@, ch)]
  ELSE AddChar(CheckLineLength(w, 1), ch)

AddSeparator(w) ==
  IF w.output_line # <<>> /\ w.output_line[Len(w.output_line)] # SPACE
  THEN [w EXCEPT !.output_line = Append(@, SPACE)]
  ELSE w

PrintSeparator(w) ==
  IF w.max_line_length = 0
  THEN [w EXCEPT !.fp = Append(@, SPACE)]
  ELSE AddSeparator(CheckLineLength(w, 2))

\* print_str once check_line_length has made room: a string longer than a
\* line is reported and written out as a line of its own.
AddStr(w, str) ==
  IF Len(str) > w.max_line_length
  THEN [w EXCEPT !.logfile = @ + 1, !.fp = @ \o str \o <<NEWLINE>>]
  ELSE [w EXCEPT !.output_line = @ \o str]

PrintStr(w, str) ==
  IF w.max_line_length = 0
  THEN [w EXCEPT !.fp = @ \o str]
  ELSE AddStr(CheckLineLength(w, Len(str)), str)

\* The strings handed to print_str: words, a single space as written after
\* a move, and text that ends in a space such as "{ From: ".
Word(k) == [i \in 1..k |-> LETTER]

Strings ==
  {Word(k) : k \in 1..MaxTokenLen}
    \cup {<<SPACE>>}
    \cup {Append(Word(k), SPACE) : k \in 1..MaxTokenLen}

Called(w) == [w EXCEPT !.calls = @ + 1]

CallPrintStr ==
  /\ writer.calls < MaxWrites
  /\ \E str \in Strings : writer' = Called(PrintStr(writer, str))
  /\ UNCHANGED besideWriter

CallPrintSingleChar ==
  /\ writer.calls < MaxWrites
  /\ writer' = Called(PrintSingleChar(writer, LETTER))
  /\ UNCHANGED besideWriter

CallPrintSeparator ==
  /\ writer.calls < MaxWrites
  /\ writer' = Called(PrintSeparator(writer))
  /\ UNCHANGED besideWriter

CallTerminateLine ==
  /\ writer.calls < MaxWrites
  /\ writer' = Called(TerminateLine(writer))
  /\ UNCHANGED besideWriter

NextWriter ==
  CallPrintStr \/ CallPrintSingleChar \/ CallPrintSeparator \/ CallTerminateLine

InitWriter ==
  /\ DriverIdle
  /\ ArgsIdle
  /\ FenIdle
  /\ VariationIdle
  /\ MaterialIdle
  /\ TagsIdle
  /\ writer \in {SetOutputLineLength(n) : n \in 0..MaxLineLength}

SpecWriter == InitWriter /\ [][NextWriter]_vars

\* The lines of fp: line i ends at the i-th newline.
LineEnds(fp) == {i \in 1..Len(fp) : fp[i] = NEWLINE}

LineStart(fp, end) ==
  IF \E j \in LineEnds(fp) : j < end
  THEN 1 + CHOOSE j \in LineEnds(fp) :
             j < end /\ \A k \in LineEnds(fp) : k < end => k <= j
  ELSE 1

LineLength(fp, end) == end - LineStart(fp, end)

NoLineTooLong(w) ==
  \A end \in LineEnds(w.fp) : LineLength(w.fp, end) <= w.max_line_length

NoTrailingWhitespace(w) ==
  \A end \in LineEnds(w.fp) : end > 1 => w.fp[end - 1] # SPACE

MaxTagOrder == 2

SITE_TAG == "Site"
DATE_TAG == "Date"
ROUND_TAG == "Round"
WHITE_TAG == "White"
BLACK_TAG == "Black"
ECO_TAG == "ECO"
FEN_TAG == "FEN"
ANNOTATOR_TAG == "Annotator"

ALL_TAGS == "ALL_TAGS"
SEVEN_TAG_ROSTER == "SEVEN_TAG_ROSTER"
NO_TAGS == "NO_TAGS"

\* The first seven entries of DefaultTagOrder.
SevenTagRoster ==
  <<EVENT_TAG, SITE_TAG, DATE_TAG, ROUND_TAG, WHITE_TAG, BLACK_TAG, RESULT_TAG>>

DefaultTagOrder == SevenTagRoster \o <<ECO_TAG, ANNOTATOR_TAG, FEN_TAG>>

\* The tags by index, as the loop over the remaining tags visits them.
TagsByIndex == DefaultTagOrder

OutputTagNames == {TagsByIndex[i] : i \in 1..Len(TagsByIndex)}

\* TagOrder before add_to_output_tag_order has been called.
NoTagOrder == <<"NULL">>

IsSTR(tag) == \E i \in 1..Len(SevenTagRoster) : SevenTagRoster[i] = tag

\* is_suppressed_tag: the tag was named by --detag.
IsSuppressedTag(c, tag) == tag \in c.suppressed_tags

OutputTagIfPresent(c, tag, Tags) ==
  IF IsSuppressedTag(c, tag) THEN <<>>
  ELSE IF Tags[tag] = NullTag /\ c.tsv_format THEN <<tag>>
  ELSE IF Tags[tag] # NullTag THEN <<tag>>
  ELSE <<>>

\* output_tag: what it writes for tag.
OutputTag(c, tag, Tags) ==
  IF IsSuppressedTag(c, tag) THEN <<>>
  ELSE IF Tags[tag] = NullTag /\ c.tsv_format THEN <<tag>>
  ELSE IF IsSTR(tag) \/ Tags[tag] # NullTag THEN <<tag>>
  ELSE <<>>

\* output_STR
RECURSIVE OutputSTRFrom(_, _, _)
OutputSTRFrom(c, Tags, tag_index) ==
  IF tag_index > 7 THEN <<>>
  ELSE OutputTag(c, DefaultTagOrder[tag_index], Tags)
         \o OutputSTRFrom(c, Tags, tag_index + 1)

OutputSTR(c, Tags) == OutputSTRFrom(c, Tags, 1)

\* The first loop of show_tags over the ordering in force: each tag is
\* written from copy_of_tags and then cleared in it.
RECURSIVE ShowOrderedTags(_, _, _, _)
ShowOrderedTags(c, order, copy_of_tags, tag_index) ==
  IF tag_index > Len(order)
  THEN [emitted |-> <<>>, copy_of_tags |-> copy_of_tags]
  ELSE LET rest == ShowOrderedTags(
                     c, order,
                     [copy_of_tags EXCEPT ![order[tag_index]] = NullTag],
                     tag_index + 1)
       IN [emitted |-> OutputTag(c, order[tag_index], copy_of_tags)
                         \o rest.emitted,
           copy_of_tags |-> rest.copy_of_tags]

\* The second loop of show_tags, over the tags that remain.
RECURSIVE ShowRemainingTags(_, _, _)
ShowRemainingTags(c, copy_of_tags, tag_index) ==
  IF tag_index > Len(TagsByIndex) THEN <<>>
  ELSE (IF copy_of_tags[TagsByIndex[tag_index]] # NullTag
        THEN OutputTag(c, TagsByIndex[tag_index], copy_of_tags)
        ELSE <<>>)
         \o ShowRemainingTags(c, copy_of_tags, tag_index + 1)

ShowTagsAfterOrdered(c, ordered) ==
  IF ~c.only_output_wanted_tags /\ ~c.tsv_format
  THEN ordered.emitted \o ShowRemainingTags(c, ordered.copy_of_tags, 1)
  ELSE ordered.emitted

ShowTags(c, Tags) ==
  ShowTagsAfterOrdered(
    c,
    ShowOrderedTags(c, IF c.TagOrder = NoTagOrder
                       THEN DefaultTagOrder ELSE c.TagOrder, Tags, 1))

\* The tag section of print_algebraic_game.
PrintTagSection(c, Tags) ==
  IF c.tag_output_format = ALL_TAGS THEN ShowTags(c, Tags)
  ELSE IF c.tag_output_format = SEVEN_TAG_ROSTER
       THEN OutputSTR(c, Tags)
              \o (IF c.add_ECO /\ ~c.parsing_ECO_file
                  THEN OutputTag(c, ECO_TAG, Tags) ELSE <<>>)
              \o (IF Tags[FEN_TAG] # NullTag
                  THEN OutputTag(c, FEN_TAG, Tags) ELSE <<>>)
       ELSE <<>>

\* The orderings a roster file (-R) can set up: add_to_output_tag_order
\* appends a tag that has no position yet.
RosterTags == {RESULT_TAG, EVENT_TAG, ECO_TAG}

TagOrders ==
  {NoTagOrder} \cup
  {order \in UNION {[1..n -> RosterTags] : n \in 1..MaxTagOrder} :
     \A i, j \in 1..Len(order) : i # j => order[i] # order[j]}

\* The tags whose presence in the game varies; the others of the Seven Tag
\* Roster are present.
OptionalTags == {EVENT_TAG, DATE_TAG, RESULT_TAG, ECO_TAG, FEN_TAG, ANNOTATOR_TAG}

GameTags ==
  {[tag \in OutputTagNames |->
      IF tag \in OptionalTags \ present THEN NullTag ELSE TagString] :
     present \in SUBSET OptionalTags}

\* -7 clashes with --xroster and with --notags (process_argument).
TagOptions ==
  {c \in [tag_output_format : {ALL_TAGS, SEVEN_TAG_ROSTER, NO_TAGS},
          TagOrder : TagOrders,
          only_output_wanted_tags : BOOLEAN,
          suppressed_tags : {{}, {SITE_TAG}, {ECO_TAG}},
          add_ECO : BOOLEAN,
          parsing_ECO_file : {FALSE},
          tsv_format : BOOLEAN] :
     ~(c.tag_output_format = SEVEN_TAG_ROSTER /\ c.only_output_wanted_tags)}

PrintGameTags ==
  /\ ~tagout.printed
  /\ tagout' = [tagout EXCEPT !.printed = TRUE,
                              !.emitted = PrintTagSection(tagout.c, tagout.Tags)]
  /\ UNCHANGED besideTags

NextTags == PrintGameTags

InitTags ==
  /\ DriverIdle
  /\ ArgsIdle
  /\ FenIdle
  /\ VariationIdle
  /\ MaterialIdle
  /\ WriterIdle
  /\ \E c \in TagOptions, Tags \in GameTags :
       tagout = [c |-> c, Tags |-> Tags, emitted |-> <<>>, printed |-> FALSE]

SpecTags == InitTags /\ [][NextTags]_vars

StartsWith(seq, prefix) ==
  Len(seq) >= Len(prefix) /\ SubSeq(seq, 1, Len(prefix)) = prefix

NotSuppressed(tag) == ~IsSuppressedTag(tagout.c, tag)

\* C12 as stated: in SEVEN_TAG_ROSTER mode and in ALL_TAGS mode the first
\* seven tags emitted for a game are Event, Site, Date, Round, White, Black,
\* Result in that order.
C12_SevenTagRosterFirst ==
  (tagout.printed /\ tagout.c.tag_output_format \in {SEVEN_TAG_ROSTER, ALL_TAGS})
    => StartsWith(tagout.emitted, SevenTagRoster)

\* C12: in SEVEN_TAG_ROSTER mode, and in ALL_TAGS mode when no roster file
\* has set a tag ordering, the tags emitted for a game start with the tags
\* of the Seven Tag Roster that --detag has not suppressed, in the order
\* Event, Site, Date, Round, White, Black, Result; with none of them
\* suppressed these are the first seven tags emitted.
C12_SevenTagRosterFirstByDefault ==
  (/\ tagout.printed
   /\ \/ tagout.c.tag_output_format = SEVEN_TAG_ROSTER
      \/ /\ tagout.c.tag_output_format = ALL_TAGS
         /\ tagout.c.TagOrder = NoTagOrder)
    => StartsWith(tagout.emitted, SelectSeq(SevenTagRoster, NotSuppressed))

\* All tags are written in the default order for a game that lacks the
\* Event, Date and Result tags and has an ECO tag: the seven come first.
C12_Witness ==
  /\ tagout.printed
  /\ tagout.c.tag_output_format = ALL_TAGS
  /\ tagout.c.TagOrder = NoTagOrder
  /\ tagout.c.suppressed_tags = {}
  /\ ~tagout.c.tsv_format
  /\ tagout.Tags[EVENT_TAG] = NullTag
  /\ tagout.Tags[DATE_TAG] = NullTag
  /\ tagout.Tags[RESULT_TAG] = NullTag
  /\ tagout.Tags[ECO_TAG] # NullTag
  /\ tagout.emitted = SevenTagRoster \o <<ECO_TAG>>

(***************************************************************************)
(* The depth counting of the material matcher (material.c).  A game is the *)
(* sequence of its positions, the first being the one before the first     *)
(* move; of a position the model keeps, for each game colour, whether both *)
(* piece sets of the criterion match it (piece_set_match).  The moves have *)
(* been checked by then, so apply_move succeeds.                           *)
(***************************************************************************)
MaxPlies == 3
MaxMoveDepth == 2

WHITE == "WHITE"
BLACK == "BLACK"
Colours == {WHITE, BLACK}

\* new_ending_details, decompose_line: a criterion with its move depth.
NewEndingDetails(both_colours, depth) ==
  [both_colours |-> both_colours, move_depth |-> depth,
   match_depth |-> [c \in Colours |-> 0]]

\* reset_match_depths
ResetMatchDepths(details) ==
  [details EXCEPT !.match_depth = [c \in Colours |-> 0]]

MaterialMatchAtOnce(details, piece_sets_match, game_colour) ==
  IF piece_sets_match[game_colour]
  THEN [match |-> TRUE, details |-> details]
  ELSE [match |-> FALSE,
        details |-> [details EXCEPT !.match_depth[game_colour] = 0]]

\* material_match for game_colour in a position.
MaterialMatch(details, piece_sets_match, game_colour) ==
  IF piece_sets_match[game_colour]
  THEN IF details.match_depth[game_colour] < details.move_depth
       THEN [match |-> FALSE,
             details |-> [details EXCEPT !.match_depth[game_colour] = @ + 1]]
       ELSE [match |-> TRUE, details |-> details]
  ELSE [match |-> FALSE,
        details |-> [details EXCEPT !.match_depth[game_colour] = 0]]

\* The body of the for loop of look_for_material_match once WHITE is tried.
TryBlack(m, white) ==
  IF white.details.both_colours
  THEN LET black == MaterialMatch(white.details,
                                  m.positions[m.position], BLACK)
       IN [m EXCEPT !.details = black.details,
                    !.white_matches = white.match,
                    !.black_matches = black.match,
                    !.matches = white.match \/ black.match]
  ELSE [m EXCEPT !.details = white.details,
                 !.white_matches = white.match,
                 !.black_matches = FALSE,
                 !.matches = white.match]

\* The for loop of look_for_material_match over the one criterion.
TryPosition ==
  /\ material.at = "try"
  /\ material' =
       [TryBlack(material,
                 MaterialMatch(material.details,
                               material.positions[material.position], WHITE))
          EXCEPT !.at = "tried"]
  /\ UNCHANGED besideMaterial

\* matches: the while loop ends and the game is a match.
MatchFound ==
  /\ material.at = "tried"
  /\ material.matches
  /\ material' = [material EXCEPT !.at = "returned", !.result = TRUE]
  /\ UNCHANGED besideMaterial

\* next_move == NULL
EndOfGame ==
  /\ material.at = "tried"
  /\ ~material.matches
  /\ material.position = Len(material.positions)
  /\ material' = [material EXCEPT !.at = "returned", !.result = FALSE]
  /\ UNCHANGED besideMaterial

\* apply_move: on to the next position.
ApplyMove ==
  /\ material.at = "tried"
  /\ ~material.matches
  /\ material.position < Len(material.positions)
  /\ material' = [material EXCEPT !.at = "try", !.position = @ + 1]
  /\ UNCHANGED besideMaterial

NextMaterial == TryPosition \/ MatchFound \/ EndOfGame \/ ApplyMove

GamePositions ==
  UNION {[1..n -> [Colours -> BOOLEAN]] : n \in 1..(MaxPlies + 1)}

InitMaterial ==
  /\ DriverIdle
  /\ ArgsIdle
  /\ FenIdle
  /\ VariationIdle
  /\ WriterIdle
  /\ TagsIdle
  /\ \E both_colours \in BOOLEAN, depth \in 0..MaxMoveDepth,
        positions \in GamePositions :
       material = [details |-> ResetMatchDepths(
                                 NewEndingDetails(both_colours, depth)),
                   positions |-> positions, position |-> 1, at |-> "try",
                   matches |-> FALSE, white_matches |-> FALSE,
                   black_matches |-> FALSE, result |-> FALSE]

SpecMaterial == InitMaterial /\ [][NextMaterial]_vars

\* The game colours a criterion is tried for.
TriedColours(details) == IF details.both_colours THEN Colours ELSE {WHITE}

\* The relation holds for colour in the d consecutive positions up to n.
HeldFor(colour, n, d) ==
  /\ n >= d
  /\ \A i \in (n - d + 1)..n : material.positions[i][colour]

\* The positions at which the relation has held for d consecutive
\* positions for one colour.
HeldPositions(d) ==
  {n \in 1..Len(material.positions) :
     \E colour \in TriedColours(material.details) : HeldFor(colour, n, d)}

\* C13 as stated: a criterion with move_depth d fires at the first ply at
\* which the relation has held for d consecutive plies for one colour (so
\* with d = 2 a game with two consecutive matching plies matches and one
\* with a single matching ply does not), and a failing ply resets that
\* colour's match_depth to zero.
C13_FiresAfterDepthPlies ==
  /\ (material.at = "returned" /\ material.details.move_depth >= 1)
       => /\ material.result <=> HeldPositions(material.details.move_depth) # {}
          /\ material.result =>
               \A n \in HeldPositions(material.details.move_depth) :
                 material.position <= n
  /\ material.at = "tried"
       => \A colour \in TriedColours(material.details) :
            ~material.positions[material.position][colour]
              => material.details.match_depth[colour] = 0

\* C13: a criterion with move_depth d fires at the first position at which
\* the relation has held for one tried colour in d + 1 consecutive positions
\* (that position and the d before it, so that it has stayed in force over
\* d plies); a failing position resets that colour's match_depth to zero.
\* With d = 2 a game in which the relation holds in three consecutive
\* positions matches, one in which it holds in no more than two does not.
C13_FiresOnePositionAfterDepth ==
  /\ material.at = "returned"
       => /\ material.result
               <=> HeldPositions(material.details.move_depth + 1) # {}
          /\ material.result =>
               /\ material.position
                    \in HeldPositions(material.details.move_depth + 1)
               /\ \A n \in HeldPositions(material.details.move_depth + 1) :
                    material.position <= n
  /\ material.at = "tried"
       => \A colour \in TriedColours(material.details) :
            ~material.positions[material.position][colour]
              => material.details.match_depth[colour] = 0

\* With depth 2 the relation fails in the first position and then holds for
\* White in three positions running: the game matches in the last of them.
C13_Witness ==
  /\ material.at = "returned"
  /\ material.result
  /\ material.details.move_depth = 2
  /\ ~material.details.both_colours
  /\ Len(material.positions) = 4
  /\ ~material.positions[1][WHITE]
  /\ material.position = 4

\* ---------------------------------------------------------------------
\* The textual variation matcher (moves.c).  A string is the sequence of
\* its characters; a variation is the list of the words of one line of the
\* variations file, a game the list of the texts of its main-line moves.

MaxVariationLength == 3
MaxGamePlies == 3

ANY_MOVE == "*"

DISALLOWED_MOVE == "!"

\* move_char: a letter, a digit or '-'.  The letters of the model are a, b.
MoveChar(c) == c \in {"a", "b"}

\* strstr from a point of str: the first index at or after from where
\* needle occurs, 0 for NULL.
StrStr(str, from, needle) ==
  LET found == {i \in from..(Len(str) - Len(needle) + 1) :
                   SubSeq(str, i, i + Len(needle) - 1) = needle}
  IN IF found = {} THEN 0
     ELSE CHOOSE i \in found : \A j \in found : i <= j

\* while (move_char(*match_point)) match_point++;  Len(str) + 1 is the
\* terminating NUL.
SkipMoveChars(str, match_point) ==
  LET stops == {i \in match_point..Len(str) : ~MoveChar(str[i])}
  IN IF stops = {} THEN Len(str) + 1
     ELSE CHOOSE i \in stops : \A j \in stops : i <= j

\* The match point is surrounded by non-move characters.
Surrounded(variation_move, actual_move, match_point) ==
  /\ ~(match_point # 1 /\ MoveChar(variation_move[match_point - 1]))
  /\ ~(/\ match_point + Len(actual_move) <= Len(variation_move)
       /\ MoveChar(variation_move[match_point + Len(actual_move)]))

RECURSIVE TextualMatchAt(_, _, _)
TextualMatchAt(variation_move, actual_move, match_point) ==
  IF match_point = 0 THEN FALSE
  ELSE IF Surrounded(variation_move, actual_move, match_point) THEN TRUE
  ELSE TextualMatchAt(variation_move, actual_move,
         StrStr(variation_move, SkipMoveChars(variation_move, match_point),
                actual_move))

\* The mutant: strstr alone, the surroundings of the match point unchecked.
TextualVariationMatchAnywhere(variation_move, actual_move) ==
  StrStr(variation_move, 1, actual_move) # 0

TextualVariationMatch(variation_move, actual_move) ==
  TextualMatchAt(variation_move, actual_move,
                 StrStr(variation_move, 1, actual_move))

\* compose_variation: the words of the line (move numbers stripped) with
\* the ANY_MOVE and DISALLOWED_MOVE words counted by colour: the words at
\* even offsets (odd indexes here) are White's.
WordsOf(words, first, colour_offset) ==
  {i \in 1..Len(words) : words[i][1] = first /\ i % 2 = colour_offset}

ComposeVariation(words) ==
  [moves |-> [i \in 1..Len(words) |->
                [move |-> words[i], matched |-> FALSE]],
   num_white_any_moves |-> Cardinality(WordsOf(words, ANY_MOVE, 1)),
   num_black_any_moves |-> Cardinality(WordsOf(words, ANY_MOVE, 0)),
   num_white_disallowed_moves |->
     Cardinality(WordsOf(words, DISALLOWED_MOVE, 1)),
   num_black_disallowed_moves |->
     Cardinality(WordsOf(words, DISALLOWED_MOVE, 0)),
   length |-> Len(words)]

\* One turn of straight_match's loop: does the move pass the word?
StraightMoveMatches(variation_move, actual_move) ==
  IF variation_move[1] = ANY_MOVE THEN TRUE
  ELSE IF TextualVariationMatch(variation_move, actual_move)
       THEN variation_move[1] # DISALLOWED_MOVE
       ELSE variation_move[1] = DISALLOWED_MOVE

\* straight_match's loop: the value of move_index when it ends.
RECURSIVE StraightMatchFrom(_, _, _)
StraightMatchFrom(game_moves, var, move_index) ==
  IF /\ move_index < Len(game_moves)
     /\ move_index < var.length
     /\ StraightMoveMatches(var.moves[move_index + 1].move,
                            game_moves[move_index + 1])
  THEN StraightMatchFrom(game_moves, var, move_index + 1)
  ELSE move_index

StraightMatch(game_moves, var) ==
  StraightMatchFrom(game_moves, var, 0) = var.length

\* The mutant: stage one never finds a disallowed move.
NoDisallowedMoveFound(game_moves, var) == FALSE

\* Stage one of permutation_match: one of the first var.length moves of
\* the game is a DISALLOWED_MOVE word of its own colour (variant_index
\* starts at the colour's first word and goes two half-moves along).
DisallowedMoveFound(game_moves, var) ==
  \E tested_moves \in 1..var.length, variant_index \in 1..var.length :
    /\ tested_moves <= Len(game_moves)
    /\ variant_index % 2 = tested_moves % 2
    /\ var.moves[variant_index].move[1] = DISALLOWED_MOVE
    /\ TextualVariationMatch(var.moves[variant_index].move,
                             game_moves[tested_moves])

\* "In effect, each DISALLOWED_MOVE now becomes an ANY_MOVE."
DisallowedBecomeAny(var) ==
  [var EXCEPT
     !.moves = [i \in 1..var.length |->
                  [var.moves[i] EXCEPT
                     !.matched = (var.moves[i].move[1] = DISALLOWED_MOVE)]],
     !.num_white_any_moves = @ + var.num_white_disallowed_moves,
     !.num_black_any_moves = @ + var.num_black_disallowed_moves]

\* The unmatched words of the colour to move that the move matches.
UnmatchedMatching(var, actual_move, matched_moves) ==
  {variant_index \in 1..var.length :
     /\ variant_index % 2 = (matched_moves + 1) % 2
     /\ ~var.moves[variant_index].matched
     /\ TextualVariationMatch(var.moves[variant_index].move, actual_move)}

\* Stage two of permutation_match: the loop from matched_moves on.
RECURSIVE PermuteFrom(_, _, _)
PermuteWith(game_moves, var, matched_moves, found) ==
  IF found # {}
  THEN PermuteFrom(game_moves,
         [var EXCEPT
            !.moves[CHOOSE i \in found : \A j \in found : i <= j].matched =
              TRUE],
         matched_moves + 1)
  ELSE IF (matched_moves + 1) % 2 = 1 /\ var.num_white_any_moves > 0
  THEN PermuteFrom(game_moves,
         [var EXCEPT !.num_white_any_moves = @ - 1], matched_moves + 1)
  ELSE IF (matched_moves + 1) % 2 = 0 /\ var.num_black_any_moves > 0
  THEN PermuteFrom(game_moves,
         [var EXCEPT !.num_black_any_moves = @ - 1], matched_moves + 1)
  ELSE FALSE

PermuteFrom(game_moves, var, matched_moves) ==
  IF matched_moves < var.length /\ matched_moves < Len(game_moves)
  THEN PermuteWith(game_moves, var, matched_moves,
         UnmatchedMatching(var, game_moves[matched_moves + 1],
                           matched_moves))
  ELSE matched_moves = var.length

PermutationMatch(game_moves, var) ==
  IF var.num_white_disallowed_moves > 0 \/ var.num_black_disallowed_moves > 0
  THEN IF DisallowedMoveFound(game_moves, var) THEN FALSE
       ELSE PermuteFrom(game_moves, DisallowedBecomeAny(var), 0)
  ELSE PermuteFrom(game_moves, var, 0)

\* check_textual_variations' loop over games_to_keep.
RECURSIVE WantedBy(_, _, _)
WantedBy(match_permutations, game_moves, variations) ==
  IF variations = <<>> THEN FALSE
  ELSE IF (IF match_permutations
           THEN PermutationMatch(game_moves, Head(variations))
           ELSE StraightMatch(game_moves, Head(variations)))
  THEN TRUE
  ELSE WantedBy(match_permutations, game_moves, Tail(variations))

CheckTextualVariationsOf(match_permutations, game_moves, variations) ==
  IF variations # <<>>
  THEN WantedBy(match_permutations, game_moves, variations)
  ELSE TRUE

CheckTextualVariations ==
  /\ matcher # Unused
  /\ matcher.at = "call"
  /\ matcher' =
       [matcher EXCEPT
          !.at = "returned",
          !.wanted = CheckTextualVariationsOf(matcher.match_permutations,
                       matcher.moves, matcher.games_to_keep)]
  /\ UNCHANGED besideVariation

NextVariation == CheckTextualVariations

\* The move texts of the games and the words of the variations: one move
\* is part of another (a, b in ab), a word lists one or two alternatives.
MoveTexts == {<<"a">>, <<"b">>, <<"a", "b">>}

VariationWords ==
  {<<"*">>, <<"a">>, <<"b">>, <<"a", "b">>, <<"a", "|", "b">>,
   <<"a", "b", "|", "b">>, <<"!", "a">>, <<"!", "b">>,
   <<"!", "a", "b", "|", "b">>}

SeqsUpTo(S, n) == UNION {[1..k -> S] : k \in 0..n}

\* -x / -v lines: no variation, or one line of at least one word.
GamesToKeep ==
  {<<>>} \cup {<<ComposeVariation(words)>> :
                 words \in SeqsUpTo(VariationWords, MaxVariationLength)
                             \ {<<>>}}

InitVariation ==
  /\ DriverIdle
  /\ ArgsIdle
  /\ FenIdle
  /\ MaterialIdle
  /\ WriterIdle
  /\ TagsIdle
  /\ \E match_permutations \in BOOLEAN, games_to_keep \in GamesToKeep,
        game_moves \in SeqsUpTo(MoveTexts, MaxGamePlies) :
       matcher = [match_permutations |-> match_permutations,
                    games_to_keep |-> games_to_keep,
                    moves |-> game_moves, at |-> "call", wanted |-> FALSE]

SpecVariation == InitVariation /\ [][NextVariation]_vars

\* The vocabulary of the claims about one variation.
ReturnedFor(match_permutations) ==
  /\ matcher # Unused
  /\ matcher.at = "returned"
  /\ matcher.match_permutations = match_permutations
  /\ Len(matcher.games_to_keep) = 1

TheWords ==
  [i \in 1..matcher.games_to_keep[1].length |->
     matcher.games_to_keep[1].moves[i].move]

\* The pipe-separated alternatives of a word.
Alternatives(word) ==
  {SubSeq(word, p[1], p[2]) :
     p \in {q \in (1..Len(word)) \X (1..Len(word)) :
              /\ q[1] <= q[2]
              /\ \A k \in q[1]..q[2] : word[k] # "|"
              /\ q[1] = 1 \/ word[q[1] - 1] = "|"
              /\ q[2] = Len(word) \/ word[q[2] + 1] = "|"}}

IsDisallowed(word) == word[1] = DISALLOWED_MOVE

\* The move a word lists, or for a `!` word the move it names.
Lists(word, actual_move) ==
  IF IsDisallowed(word) THEN actual_move \in Alternatives(Tail(word))
  ELSE actual_move \in Alternatives(word)

Assignments ==
  {f \in [1..Len(TheWords) -> 1..Len(TheWords)] :
     /\ \A i, j \in 1..Len(TheWords) : f[i] = f[j] => i = j
     /\ \A i \in 1..Len(TheWords) :
          /\ f[i] % 2 = i % 2
          /\ \/ TheWords[f[i]] = <<ANY_MOVE>>
             \/ Lists(TheWords[f[i]], matcher.moves[i])}

NoDisallowedWords == \A i \in 1..Len(TheWords) : ~IsDisallowed(TheWords[i])

\* C15: in permutation mode a game matches a variation of length L without
\* `!` words iff it has at least L plies and its first L plies can be
\* assigned one-to-one to the L words, each ply to a word of its own colour
\* that is `*` or lists the ply's move.
C15_PermutationMatch ==
  ReturnedFor(TRUE) /\ NoDisallowedWords =>
    (matcher.wanted <=>
       /\ Len(matcher.moves) >= Len(TheWords)
       /\ Assignments # {})

\* The half of C15 that permutation_match keeps: a match has an assignment.
MatchHasAssignment ==
  ReturnedFor(TRUE) /\ NoDisallowedWords /\ matcher.wanted =>
    /\ Len(matcher.moves) >= Len(TheWords)
    /\ Assignments # {}

\* The first of White's moves is taken by the first word that lists it,
\* which alone lists White's second move.
GreedyMiss ==
  /\ ReturnedFor(TRUE)
  /\ TheWords = <<<<"a", "|", "b">>, <<"*">>, <<"a">>>>
  /\ matcher.moves = <<<<"a">>, <<"a">>, <<"b">>>>
  /\ ~matcher.wanted

\* The move a `!` word names is played at ply i (of either colour).
PlayedAt(word, i) ==
  /\ IsDisallowed(word)
  /\ i <= Len(TheWords)
  /\ i <= Len(matcher.moves)
  /\ Lists(word, matcher.moves[i])

\* C16 as stated: in permutation mode a game does not match if the move
\* named by any `!` word is played at any of the first L plies.
C16_DisallowedAnywhere ==
  ReturnedFor(TRUE) =>
    \A w \in 1..Len(TheWords), i \in 1..Len(TheWords) :
      PlayedAt(TheWords[w], i) => ~matcher.wanted

\* C16: in permutation mode a game does not match if the move named by a
\* `!` word is played at one of the first L plies by the colour of the word.
C16_DisallowedByItsColour ==
  ReturnedFor(TRUE) =>
    \A w \in 1..Len(TheWords), i \in 1..Len(TheWords) :
      PlayedAt(TheWords[w], i) /\ w % 2 = i % 2 => ~matcher.wanted

\* White's second move is the move White's first word disallows; without
\* the `!` word the game would match.
C16_Witness ==
  /\ ReturnedFor(TRUE)
  /\ TheWords = <<<<"!", "a">>, <<"*">>, <<"b">>>>
  /\ matcher.moves = <<<<"b">>, <<"b">>, <<"a">>>>
  /\ ~matcher.wanted

\* Black plays the move that a word of White disallows, and the game matches.
DisallowedPlayedByOpponent ==
  /\ ReturnedFor(TRUE)
  /\ TheWords = <<<<"!", "a">>, <<"*">>, <<"b">>>>
  /\ matcher.moves = <<<<"b">>, <<"a">>, <<"b">>>>
  /\ matcher.wanted

\* ---------------------------------------------------------------------
\* Material descriptions (material.c) as constraints of FEN patterns
\* (fenmatcher.c).  A line is the sequence of its characters.

NUL == "NUL"

CharAt(str, p) == IF p <= Len(str) THEN str[p] ELSE NUL

IsSpace(c) == c = " "

DigitChars == <<"0", "1", "2", "3", "4", "5", "6", "7", "8", "9">>

IsDigit(c) == \E i \in 1..10 : DigitChars[i] = c

DigitValue(c) == (CHOOSE i \in 1..10 : DigitChars[i] = c) - 1

MATERIAL_CONSTRAINT == ":"

EMPTY == "EMPTY"

PAWN == "PAWN"

KNIGHT == "KNIGHT"

BISHOP == "BISHOP"

ROOK == "ROOK"

QUEEN == "QUEEN"

KING == "KING"

\* The pieces from PAWN to KING, and those piece_set_match checks.
PiecesToKing == {PAWN, KNIGHT, BISHOP, ROOK, QUEEN, KING}

PiecesBelowKing == PiecesToKing \ {KING}

MINOR_PIECE == "L"

IsEnglishPiece(c) ==
  IF c \in {"K", "k"} THEN KING
  ELSE IF c \in {"Q", "q"} THEN QUEEN
  ELSE IF c \in {"R", "r"} THEN ROOK
  ELSE IF c \in {"N", "n"} THEN KNIGHT
  ELSE IF c \in {"B", "b"} THEN BISHOP
  ELSE IF c \in {"P", "p"} THEN PAWN
  ELSE EMPTY

OPPOSITE_COLOUR(colour) == IF colour = WHITE THEN BLACK ELSE WHITE

\* new_ending_details with the piece requirements: only the KING is a
\* requirement for each side.
MaterialCriteria(both_colours) ==
  [both_colours |-> both_colours, move_depth |-> 2,
   match_depth |-> [c \in Colours |-> 0],
   num_pieces |-> [c \in Colours |->
                     [piece \in PiecesToKing |->
                        IF piece = KING THEN 1 ELSE 0]],
   occurs |-> [c \in Colours |-> [piece \in PiecesToKing |-> "EXACTLY"]],
   num_minor_pieces |-> [c \in Colours |-> 0],
   minor_occurs |-> [c \in Colours |-> "EXACTLY"]]

NoCriteria == [null |-> TRUE]

\* extract_combination's trailing annotations, from p with the number read.
TrailingAnnotation(line, p, number) ==
  LET c == CharAt(line, p) IN
  IF c = "*" THEN [p |-> p + 1, occurs |-> "NUM_OR_MORE", number |-> 0]
  ELSE IF c = "+"
  THEN [p |-> p + 1, occurs |-> "NUM_OR_MORE", number |-> number]
  ELSE IF c = "-"
  THEN [p |-> p + 1, occurs |-> "NUM_OR_LESS", number |-> number]
  ELSE IF c = "?" THEN [p |-> p + 1, occurs |-> "NUM_OR_LESS", number |-> 1]
  ELSE IF c = "="
  THEN [p |-> p + 1, occurs |-> "SAME_AS_OPPONENT", number |-> number]
  ELSE IF c = "#"
  THEN [p |-> p + 1, occurs |-> "NOT_SAME_AS_OPPONENT", number |-> number]
  ELSE IF c = "<"
  THEN IF CharAt(line, p + 1) = "="
       THEN [p |-> p + 2, occurs |-> "LESS_EQ_THAN_OPPONENT",
             number |-> number]
       ELSE [p |-> p + 1, occurs |-> "LESS_THAN_OPPONENT", number |-> number]
  ELSE IF c = ">"
  THEN IF CharAt(line, p + 1) = "="
       THEN [p |-> p + 2, occurs |-> "MORE_EQ_THAN_OPPONENT",
             number |-> number]
       ELSE [p |-> p + 1, occurs |-> "MORE_THAN_OPPONENT", number |-> number]
  ELSE [p |-> p, occurs |-> "EXACTLY", number |-> number]

\* extract_combination: [p, occurs, number], or NoCriteria for NULL.
ExtractCombination(line, p) ==
  IF IsDigit(CharAt(line, p))
  THEN IF IsDigit(CharAt(line, p + 1)) THEN NoCriteria
       ELSE TrailingAnnotation(line, p + 1, DigitValue(line[p]))
  ELSE TrailingAnnotation(line, p, 1)

\* The number kept for a piece: one king, no more than 8 pawns.
NumberKept(piece, number) ==
  IF piece = KING /\ number # 1 THEN 1
  ELSE IF piece = PAWN /\ number > 8 THEN 8
  ELSE number

\* extract_piece_information: [p, details], or NoCriteria for NULL.
RECURSIVE ExtractPieceInformation(_, _, _, _)
PieceCombination(line, details, colour, piece, comb) ==
  IF comb = NoCriteria THEN NoCriteria
  ELSE ExtractPieceInformation(line, comb.p,
         [details EXCEPT
            !.num_pieces[colour][piece] = NumberKept(piece, comb.number),
            !.occurs[colour][piece] = comb.occurs],
         colour)

MinorCombination(line, details, colour, comb) ==
  IF comb = NoCriteria THEN NoCriteria
  ELSE ExtractPieceInformation(line, comb.p,
         [details EXCEPT !.num_minor_pieces[colour] = comb.number,
                         !.minor_occurs[colour] = comb.occurs],
         colour)

ExtractPieceInformation(line, p, details, colour) ==
  IF CharAt(line, p) = NUL \/ IsSpace(CharAt(line, p))
       \/ CharAt(line, p) = MATERIAL_CONSTRAINT
  THEN [p |-> p, details |-> details]
  ELSE IF IsEnglishPiece(line[p]) # EMPTY
  THEN PieceCombination(line, details, colour, IsEnglishPiece(line[p]),
                        ExtractCombination(line, p + 1))
  ELSE IF line[p] \in {"L", "l"}
  THEN MinorCombination(line, details, colour,
                        ExtractCombination(line, p + 1))
  ELSE NoCriteria

\* The first index from p on whose character is not in skipped.
RECURSIVE SkipWhile(_, _, _)
SkipWhile(line, p, skipped) ==
  IF p <= Len(line) /\ line[p] \in skipped
  THEN SkipWhile(line, p + 1, skipped)
  ELSE p

\* "No explicit requirements for the other colour": a lone king.
LoneBlackKing(details) ==
  [details EXCEPT
     !.num_pieces[BLACK] = [piece \in PiecesToKing |->
                              IF piece = KING THEN 1 ELSE 0],
     !.occurs[BLACK] = [piece \in PiecesToKing |-> "EXACTLY"]]

\* decompose_line once the first set of pieces is read.
SecondPieceSet(line, white, p) ==
  IF CharAt(line, p) # NUL
  THEN ExtractPieceInformation(line, p, white.details, BLACK)
  ELSE [p |-> p, details |-> LoneBlackKing(white.details)]

AfterFirstPieceSet(line, white) ==
  IF white = NoCriteria THEN NoCriteria
  ELSE SecondPieceSet(line, white,
                      SkipWhile(line, white.p, {" ", MATERIAL_CONSTRAINT}))

\* decompose_line's move depth: one or more digits.
RECURSIVE DepthFrom(_, _, _)
DepthFrom(line, p, depth) ==
  IF IsDigit(CharAt(line, p))
  THEN DepthFrom(line, p + 1, depth * 10 + DigitValue(line[p]))
  ELSE [p |-> SkipWhile(line, p, {" "}), depth |-> depth]

PiecesAfterDepth(line, details, d) ==
  AfterFirstPieceSet(line,
    ExtractPieceInformation(line, d.p,
      [details EXCEPT !.move_depth = d.depth], WHITE))

DecomposeFrom(line, details, p) ==
  IF IsDigit(CharAt(line, p))
  THEN PiecesAfterDepth(line, details, DepthFrom(line, p, 0))
  ELSE AfterFirstPieceSet(line,
         ExtractPieceInformation(line, p, details, WHITE))

\* decompose_line: the details filled out, or NoCriteria if not Ok.
DecomposeLine(line, details) ==
  DecomposeFrom(line, details, SkipWhile(line, 1, {" "}))

NonBlankLine(line) == \E i \in 1..Len(line) : ~IsSpace(line[i])

DetailsOf(decomposed) ==
  IF decomposed = NoCriteria THEN NoCriteria ELSE decomposed.details

\* process_material_description for a constraint of a pattern.
ProcessMaterialDescription(line, both_colours) ==
  IF NonBlankLine(line)
  THEN DetailsOf(DecomposeLine(line, MaterialCriteria(both_colours)))
  ELSE NoCriteria

PieceMatch(num_available, num_to_find, num_opponents, occurs) ==
  CASE occurs = "EXACTLY" -> num_available = num_to_find
    [] occurs = "NUM_OR_MORE" -> num_available >= num_to_find
    [] occurs = "NUM_OR_LESS" -> num_available <= num_to_find
    [] occurs = "SAME_AS_OPPONENT" -> num_available = num_opponents
    [] occurs = "NOT_SAME_AS_OPPONENT" -> num_available # num_opponents
    [] occurs = "LESS_THAN_OPPONENT" ->
         num_available + num_to_find <= num_opponents
    [] occurs = "MORE_THAN_OPPONENT" ->
         num_available - num_to_find >= num_opponents
    [] occurs = "LESS_EQ_THAN_OPPONENT" ->
         num_available + num_to_find = num_opponents
    [] occurs = "MORE_EQ_THAN_OPPONENT" ->
         num_available - num_to_find = num_opponents

\* piece_match of one piece of the set.
PieceOfSetMatches(details, num_pieces, game_colour, piece_set_colour, piece) ==
  PieceMatch(num_pieces[game_colour][piece],
             details.num_pieces[piece_set_colour][piece],
             num_pieces[OPPOSITE_COLOUR(game_colour)][piece],
             details.occurs[piece_set_colour][piece])

MinorPiecesMatch(details, num_pieces, game_colour, piece_set_colour) ==
  PieceMatch(num_pieces[game_colour][BISHOP] + num_pieces[game_colour][KNIGHT],
             details.num_minor_pieces[piece_set_colour],
             num_pieces[OPPOSITE_COLOUR(game_colour)][BISHOP]
               + num_pieces[OPPOSITE_COLOUR(game_colour)][KNIGHT],
             details.minor_occurs[piece_set_colour])

\* The mutant: the set of the other colour is taken as matched.
PieceSetMatchWhiteOnly(details, num_pieces, game_colour, piece_set_colour) ==
  \/ piece_set_colour = BLACK
  \/ \A piece \in PiecesBelowKing :
       PieceOfSetMatches(details, num_pieces, game_colour, piece_set_colour,
                         piece)

\* piece_set_match: PAWN, ROOK and QUEEN must match; a failure on KNIGHT or
\* BISHOP can be made up by a requirement on the minor pieces.
PieceSetMatch(details, num_pieces, game_colour, piece_set_colour) ==
  /\ \A piece \in {PAWN, ROOK, QUEEN} :
       PieceOfSetMatches(details, num_pieces, game_colour, piece_set_colour,
                         piece)
  /\ IF \/ details.num_minor_pieces[piece_set_colour] > 0
        \/ details.minor_occurs[piece_set_colour] # "EXACTLY"
     THEN MinorPiecesMatch(details, num_pieces, game_colour, piece_set_colour)
     ELSE \A piece \in {KNIGHT, BISHOP} :
            PieceOfSetMatches(details, num_pieces, game_colour,
                              piece_set_colour, piece)

\* material_match's two calls of piece_set_match, for each game colour.
PieceSetsMatch(details, num_pieces) ==
  [game_colour \in Colours |->
     /\ PieceSetMatch(details, num_pieces, game_colour, WHITE)
     /\ PieceSetMatch(details, num_pieces, OPPOSITE_COLOUR(game_colour),
                      BLACK)]

\* constraint_material_match once WHITE is tried.
ConstraintBlackMatch(white, piece_sets_match) ==
  \/ white.match
  \/ /\ white.details.both_colours
     /\ MaterialMatch(white.details, piece_sets_match, BLACK).match

ConstraintMatchOf(details, piece_sets_match) ==
  ConstraintBlackMatch(
    MaterialMatch([details EXCEPT !.move_depth = 0,
                                  !.match_depth = [c \in Colours |-> 0]],
                  piece_sets_match, WHITE),
    piece_sets_match)

ConstraintMaterialMatch(details, num_pieces) ==
  ConstraintMatchOf(details, PieceSetsMatch(details, num_pieces))

\* ---------------------------------------------------------------------
\* The FEN pattern matcher (fenmatcher.c).  The board is scaled down to
\* BOARDSIZE ranks of BOARDSIZE squares; a rank of the board is its text as
\* convert_rank_to_text gives it, the ranks listed from the last one down as
\* in a FEN string.

BOARDSIZE == 2

EMPTY_SQUARE == "_"

NON_EMPTY_SQUARE == "!"

ANY_SQUARE_STATE == "?"

ZERO_OR_MORE_OF_ANYTHING == "*"

ANY_WHITE_PIECE == "A"

ANY_BLACK_PIECE == "a"

NOT_A_PAWN == "m"

CCL_START == "["

CCL_END == "]"

NCCL == "^"

WhitePieceLetters == {"K", "Q", "R", "N", "B", "P"}

BlackPieceLetters == {"k", "q", "r", "n", "b", "p"}

MatchOne(regchar, textchar) ==
  IF regchar = textchar THEN TRUE
  ELSE IF regchar = NON_EMPTY_SQUARE THEN textchar # EMPTY_SQUARE
  ELSE IF regchar = ANY_WHITE_PIECE THEN textchar \in WhitePieceLetters
  ELSE IF regchar = ANY_BLACK_PIECE THEN textchar \in BlackPieceLetters
  ELSE IF regchar = ANY_SQUARE_STATE THEN TRUE
  ELSE IF regchar = NOT_A_PAWN THEN textchar \notin {"P", "p"}
  ELSE FALSE

From(str, p) == SubSeq(str, p, Len(str))

\* matchccl / matchnccl: where the first loop stops in regexp, at CCL_END,
\* at a character that matches textchar, or at the terminating NUL.
RECURSIVE ClosureStop(_, _, _)
ClosureStop(regexp, textchar, p) ==
  IF /\ CharAt(regexp, p) # CCL_END
     /\ ~MatchOne(CharAt(regexp, p), textchar)
     /\ CharAt(regexp, p) # NUL
  THEN ClosureStop(regexp, textchar, p + 1)
  ELSE p

\* do regexp++ while not at CCL_END or the NUL.
RECURSIVE ClosureEnd(_, _)
ClosureEnd(regexp, p) ==
  IF CharAt(regexp, p + 1) # CCL_END /\ CharAt(regexp, p + 1) # NUL
  THEN ClosureEnd(regexp, p + 1)
  ELSE p + 1

\* The number of empty squares matched by a digit of the pattern.
RECURSIVE EmptyMatched(_, _, _)
EmptyMatched(text, empty, match_count) ==
  IF match_count < empty /\ CharAt(text, match_count + 1) = EMPTY_SQUARE
  THEN EmptyMatched(text, empty, match_count + 1)
  ELSE match_count

RECURSIVE MatchHere(_, _)
\* matchstar: some end of the text matches the rest of the pattern.
MatchStar(regexp, text) ==
  \E t \in 1..(Len(text) + 1) : MatchHere(regexp, From(text, t))

MatchCclAt(regexp, text, stop) ==
  /\ MatchOne(CharAt(regexp, stop), text[1])
  /\ MatchHere(From(regexp, ClosureEnd(regexp, stop) + 1), Tail(text))

MatchCcl(regexp, text) ==
  MatchCclAt(regexp, text, ClosureStop(regexp, text[1], 1))

MatchNcclAt(regexp, text, stop) ==
  /\ CharAt(regexp, stop) = CCL_END
  /\ MatchHere(From(regexp, stop + 1), Tail(text))

MatchNccl(regexp, text) ==
  MatchNcclAt(regexp, text, ClosureStop(regexp, text[1], 1))

MatchEmpty(regexp, text, empty) ==
  /\ EmptyMatched(text, empty, 0) = empty
  /\ MatchHere(Tail(regexp), From(text, empty + 1))

MatchHere(regexp, text) ==
  IF regexp = <<>> /\ text = <<>> THEN TRUE
  ELSE IF CharAt(regexp, 1) = ZERO_OR_MORE_OF_ANYTHING
  THEN MatchStar(Tail(regexp), text)
  ELSE IF text = <<>> \/ regexp = <<>> THEN FALSE
  ELSE IF regexp[1] = ANY_SQUARE_STATE
  THEN MatchHere(Tail(regexp), Tail(text))
  ELSE IF regexp[1] \in {NON_EMPTY_SQUARE, ANY_WHITE_PIECE, ANY_BLACK_PIECE,
                         NOT_A_PAWN}
  THEN MatchOne(regexp[1], text[1]) /\ MatchHere(Tail(regexp), Tail(text))
  ELSE IF regexp[1] = CCL_START
  THEN IF CharAt(regexp, 2) = NCCL THEN MatchNccl(From(regexp, 3), text)
       ELSE MatchCcl(Tail(regexp), text)
  ELSE IF IsDigit(regexp[1]) /\ DigitValue(regexp[1]) \in 1..8
  THEN MatchEmpty(regexp, text, DigitValue(regexp[1]))
  ELSE regexp[1] = text[1] /\ MatchHere(Tail(regexp), Tail(text))

Uppers == <<"A", "B", "K", "M", "N", "P", "Q", "R">>

Lowers == <<"a", "b", "k", "m", "n", "p", "q", "r">>

\* toupper of a lower-case letter, tolower of an upper-case one.
FlipCase(c) ==
  IF \E i \in 1..Len(Uppers) : Uppers[i] = c
  THEN Lowers[CHOOSE i \in 1..Len(Uppers) : Uppers[i] = c]
  ELSE IF \E i \in 1..Len(Lowers) : Lowers[i] = c
  THEN Uppers[CHOOSE i \in 1..Len(Lowers) : Lowers[i] = c]
  ELSE c

\* The rows of a pattern: the text between its '/'.
RECURSIVE RowsFrom(_, _, _)
RowsFrom(pattern, start, end) ==
  IF CharAt(pattern, end) # "/" /\ CharAt(pattern, end) # NUL
  THEN RowsFrom(pattern, start, end + 1)
  ELSE IF CharAt(pattern, end) = NUL
  THEN <<SubSeq(pattern, start, end - 1)>>
  ELSE <<SubSeq(pattern, start, end - 1)>>
         \o RowsFrom(pattern, end + 1, end + 1)

RECURSIVE JoinRows(_)
JoinRows(rows) ==
  IF Len(rows) = 1 THEN rows[1]
  ELSE rows[1] \o <<"/">> \o JoinRows(Tail(rows))

FlippedRows(rows) ==
  [row \in 1..Len(rows) |->
     [i \in 1..Len(rows[Len(rows) + 1 - row]) |->
        FlipCase(rows[Len(rows) + 1 - row][i])]]

\* reverse_fen_pattern of a pattern of BOARDSIZE rows: the rows in the
\* opposite order, the case of each letter inverted.
ReverseFenPattern(pattern) ==
  JoinRows(FlippedRows(RowsFrom(pattern, 1, 1)))

\* add_fen_pattern's check of the syntax: one turn of the while loop.
ScanChar(s, c) ==
  IF c = "/"
  THEN IF s.rankSymbols = 0
       THEN [s EXCEPT !.ok = FALSE, !.p = @ + 1]
       ELSE [s EXCEPT !.ranks = Append(@, SubSeq(s.fen_pattern,
                                                 s.rank_start, s.p - 1)),
                      !.dividers = @ + 1, !.rank_start = s.p + 1,
                      !.rankSymbols = 0, !.p = @ + 1]
  ELSE IF c = CCL_START
  THEN IF ~s.in_closure THEN [s EXCEPT !.in_closure = TRUE, !.p = @ + 1]
       ELSE [s EXCEPT !.ok = FALSE, !.p = @ + 1]
  ELSE IF c = CCL_END
  THEN IF s.in_closure THEN [s EXCEPT !.in_closure = FALSE, !.p = @ + 1]
       ELSE [s EXCEPT !.ok = FALSE, !.p = @ + 1]
  ELSE IF c = NCCL
  THEN IF ~s.in_closure THEN [s EXCEPT !.ok = FALSE, !.p = @ + 1]
       ELSE [s EXCEPT !.p = @ + 1]
  ELSE [s EXCEPT !.rankSymbols = @ + 1, !.p = @ + 1]

RECURSIVE ScanPattern(_)
ScanPattern(s) ==
  IF /\ CharAt(s.fen_pattern, s.p) \notin {NUL, " ", MATERIAL_CONSTRAINT}
     /\ s.ok
  THEN ScanPattern(ScanChar(s, s.fen_pattern[s.p]))
  ELSE s

\* The checks after the loop, and the final rank stored.
ScanEnd(s) ==
  IF s.dividers # BOARDSIZE - 1 THEN [s EXCEPT !.ok = FALSE]
  ELSE IF s.rankSymbols = 0 THEN [s EXCEPT !.ok = FALSE]
  ELSE IF s.ok
  THEN [s EXCEPT !.ranks = Append(@, SubSeq(s.fen_pattern, s.rank_start,
                                            s.p - 1))]
  ELSE s

ScanOf(fen_pattern) ==
  ScanEnd(ScanPattern([fen_pattern |-> fen_pattern, p |-> 1, dividers |-> 0,
                       rankSymbols |-> 0, ok |-> TRUE, rank_start |-> 1,
                       in_closure |-> FALSE, ranks |-> <<>>]))

\* pattern_tree_insert / insert_pattern: the tree as the list of its
\* patterns; a pattern whose ranks are all in the tree is a duplicate.
PatternTreeInsert(tree, ranks, constraint) ==
  IF \E i \in 1..Len(tree) : tree[i].ranks = ranks THEN tree
  ELSE Append(tree, [ranks |-> ranks, constraint |-> constraint])

\* The constraint of the pattern scanned, and p after it.
ConstraintOf(s, add_reverse) ==
  IF CharAt(s.fen_pattern, s.p) = MATERIAL_CONSTRAINT
  THEN ProcessMaterialDescription(From(s.fen_pattern, s.p + 1), add_reverse)
  ELSE NoCriteria

AfterConstraint(s) ==
  IF CharAt(s.fen_pattern, s.p) = MATERIAL_CONSTRAINT THEN s.p + 1 ELSE s.p

\* add_fen_pattern without add_reverse, for a pattern already scanned.
InsertScanned(tree, s, add_reverse) ==
  IF s.ok THEN PatternTreeInsert(tree, s.ranks, ConstraintOf(s, add_reverse))
  ELSE tree

\* add_fen_pattern: the pattern tree afterwards.
AddScanned(tree, s, add_reverse) ==
  IF s.ok /\ add_reverse
  THEN InsertScanned(InsertScanned(tree, s, TRUE),
         ScanOf(ReverseFenPattern(
                  SubSeq(s.fen_pattern, 1, AfterConstraint(s) - 1))),
         FALSE)
  ELSE InsertScanned(tree, s, add_reverse)

AddFenPattern(tree, fen_pattern, add_reverse) ==
  AddScanned(tree, ScanOf(fen_pattern), add_reverse)

PieceLetter(colour, piece) ==
  CHOOSE c \in (IF colour = WHITE THEN WhitePieceLetters
                ELSE BlackPieceLetters) : IsEnglishPiece(c) = piece

\* extract_pieces_from_board
ExtractPiecesFromBoard(board) ==
  [colour \in Colours |->
     [piece \in PiecesToKing |->
        Cardinality({sq \in (1..Len(board)) \X (1..BOARDSIZE) :
                       sq[2] <= Len(board[sq[1]])
                       /\ board[sq[1]][sq[2]] = PieceLetter(colour, piece)})]]

\* pattern_match_rank along one pattern of the tree.
PatternMatches(pattern, board) ==
  /\ \A patternIndex \in 1..BOARDSIZE :
       MatchHere(pattern.ranks[patternIndex], board[patternIndex])
  /\ \/ pattern.constraint = NoCriteria
     \/ ConstraintMaterialMatch(pattern.constraint,
                                ExtractPiecesFromBoard(board))

\* pattern_match_board: a label is found for the board.
PatternMatchBoard(tree, board) ==
  \E i \in 1..Len(tree) : PatternMatches(tree[i], board)

\* --fenpattern / --fenpatterni
AddFenPatternArgument ==
  /\ fenmatch # Unused
  /\ fenmatch.at = "args"
  /\ fenmatch' =
       [fenmatch EXCEPT
          !.at = "match",
          !.pattern_tree = AddFenPattern(<<>>, fenmatch.fen_pattern,
                                         fenmatch.add_reverse)]
  /\ UNCHANGED besideFen

CallPatternMatchBoard ==
  /\ fenmatch # Unused
  /\ fenmatch.at = "match"
  /\ fenmatch' =
       [fenmatch EXCEPT
          !.at = "matched",
          !.match = PatternMatchBoard(fenmatch.pattern_tree, fenmatch.board)]
  /\ UNCHANGED besideFen

NextFen == AddFenPatternArgument \/ CallPatternMatchBoard

\* The squares of the boards: empty, a pawn and a rook of each colour.
SquareTexts == {"_", "P", "R", "p", "r"}

Boards == [1..BOARDSIZE -> [1..BOARDSIZE -> SquareTexts]]

\* The ranks of the patterns: each metacharacter, the two closures, a
\* count of empty squares and a piece letter.
RankPatterns ==
  {<<"*">>, <<"m", "*">>, <<"A", "*">>, <<"*", "a">>,
   <<"[", "P", "r", "]", "*">>, <<"[", "^", "P", "]", "*">>,
   <<"1", "!", "*">>, <<"?", "R", "*">>}

\* The material constraints: a set of White's alone, both sets, a depth.
ConstraintLines ==
  {<<"K", "R">>, <<"K", "P">>, <<"K">>, <<"K", "R", "P", "2">>,
   <<"K", "R", " ", "K", "p">>, <<"K", "R", "+", ":", "K", "R", "*">>,
   <<"1", "K", "R">>}

AnyBoard == JoinRows([i \in 1..BOARDSIZE |-> <<ZERO_OR_MORE_OF_ANYTHING>>])

\* A white piece on the first square of the last rank, any other rank.
WhiteInCorner ==
  JoinRows([i \in 1..BOARDSIZE |->
              IF i = 1 THEN <<ANY_WHITE_PIECE, ZERO_OR_MORE_OF_ANYTHING>>
              ELSE <<ZERO_OR_MORE_OF_ANYTHING>>])

FenPatterns ==
  {JoinRows(ranks) : ranks \in [1..BOARDSIZE -> RankPatterns]}
  \cup {AnyBoard \o <<MATERIAL_CONSTRAINT>> \o line : line \in ConstraintLines}
  \cup {WhiteInCorner \o <<MATERIAL_CONSTRAINT, "K", "R">>}

InitFen ==
  /\ DriverIdle
  /\ ArgsIdle
  /\ VariationIdle
  /\ MaterialIdle
  /\ WriterIdle
  /\ TagsIdle
  /\ \E fen_pattern \in FenPatterns, add_reverse \in BOOLEAN,
        board \in Boards :
       fenmatch = [at |-> "args", fen_pattern |-> fen_pattern,
                   add_reverse |-> add_reverse, pattern_tree |-> <<>>,
                   board |-> board, match |-> FALSE]

SpecFen == InitFen /\ [][NextFen]_vars

\* The vocabulary of the claims about FEN patterns.
Matched(add_reverse) ==
  /\ fenmatch # Unused
  /\ fenmatch.at = "matched"
  /\ fenmatch.add_reverse = add_reverse

ConstraintAt ==
  CHOOSE i \in 1..Len(fenmatch.fen_pattern) :
    /\ fenmatch.fen_pattern[i] = MATERIAL_CONSTRAINT
    /\ \A j \in 1..(i - 1) : fenmatch.fen_pattern[j] # MATERIAL_CONSTRAINT

\* The pattern is any board with a constraint that names one set of pieces.
WhiteSetOnly ==
  /\ \E i \in 1..Len(fenmatch.fen_pattern) :
       fenmatch.fen_pattern[i] = MATERIAL_CONSTRAINT
  /\ SubSeq(fenmatch.fen_pattern, 1, ConstraintAt - 1) = AnyBoard
  /\ \A i \in (ConstraintAt + 1)..Len(fenmatch.fen_pattern) :
       fenmatch.fen_pattern[i] \notin {" ", MATERIAL_CONSTRAINT}

\* The number of a piece that the line names: the digit after its letter,
\* one without a digit, none if the letter is not in the line.
NamedNumber(line, piece) ==
  IF \E i \in 1..Len(line) : IsEnglishPiece(line[i]) = piece
  THEN LET i == CHOOSE i \in 1..Len(line) : IsEnglishPiece(line[i]) = piece
       IN IF IsDigit(CharAt(line, i + 1)) THEN DigitValue(line[i + 1]) ELSE 1
  ELSE 0

HasExactly(colour, line) ==
  \A piece \in PiecesBelowKing :
    ExtractPiecesFromBoard(fenmatch.board)[colour][piece] =
      NamedNumber(line, piece)

\* C17 as stated: a material constraint on a FEN pattern that names only
\* White's pieces is satisfied iff White has exactly the named material,
\* whatever Black has.
C17_WhiteOnlyConstraint ==
  Matched(FALSE) /\ WhiteSetOnly =>
    (fenmatch.match <=>
       HasExactly(WHITE, From(fenmatch.fen_pattern, ConstraintAt + 1)))

\* C17: a material constraint on a FEN pattern that names only White's
\* pieces is satisfied iff White has exactly the named material and Black
\* has a lone king.
C17_WhiteSetAndLoneBlackKing ==
  Matched(FALSE) /\ WhiteSetOnly =>
    (fenmatch.match <=>
       /\ HasExactly(WHITE, From(fenmatch.fen_pattern, ConstraintAt + 1))
       /\ HasExactly(BLACK, <<"K">>))

\* :KR is satisfied by a board with a white rook and nothing else.
C17_Witness ==
  /\ Matched(FALSE)
  /\ WhiteSetOnly
  /\ From(fenmatch.fen_pattern, ConstraintAt + 1) = <<"K", "R">>
  /\ HasExactly(WHITE, <<"K", "R">>)
  /\ HasExactly(BLACK, <<"K">>)
  /\ fenmatch.match

\* :KR is not satisfied once Black has a pawn beside White's rook.
BlackPawnRefused ==
  /\ Matched(FALSE)
  /\ WhiteSetOnly
  /\ From(fenmatch.fen_pattern, ConstraintAt + 1) = <<"K", "R">>
  /\ HasExactly(WHITE, <<"K", "R">>)
  /\ HasExactly(BLACK, <<"K", "p">>)
  /\ ~fenmatch.match

\* The colour-swapped, rank-mirrored position.
SwappedBoard(board) ==
  [i \in 1..BOARDSIZE |->
     [j \in 1..BOARDSIZE |-> FlipCase(board[BOARDSIZE + 1 - i][j])]]

\* The pattern as --fenpattern matches it.
PatternAloneMatches(board) ==
  PatternMatchBoard(AddFenPattern(<<>>, fenmatch.fen_pattern, FALSE), board)

\* C18: a --fenpatterni pattern matches a position iff the pattern matches
\* it or matches the colour-swapped, rank-mirrored position.
C18_EitherSide ==
  Matched(TRUE) =>
    (fenmatch.match <=>
       \/ PatternAloneMatches(fenmatch.board)
       \/ PatternAloneMatches(SwappedBoard(fenmatch.board)))

\* C18 for the patterns without NOT_A_PAWN and without a constraint.
EitherSideWithoutNotAPawn ==
  /\ Matched(TRUE)
  /\ \A i \in 1..Len(fenmatch.fen_pattern) :
       fenmatch.fen_pattern[i] \notin {NOT_A_PAWN, MATERIAL_CONSTRAINT}
  => (fenmatch.match <=>
        \/ PatternAloneMatches(fenmatch.board)
        \/ PatternAloneMatches(SwappedBoard(fenmatch.board)))

\* The mirrored position has a rook where the pattern wants no pawn, and
\* is not matched.
NotAPawnLost ==
  /\ Matched(TRUE)
  /\ fenmatch.fen_pattern[1] = NOT_A_PAWN
  /\ ~PatternAloneMatches(fenmatch.board)
  /\ PatternAloneMatches(SwappedBoard(fenmatch.board))
  /\ ~fenmatch.match

\* The reversed form of a pattern with a constraint is not in the tree.
ReversedConstraintLost ==
  /\ Matched(TRUE)
  /\ fenmatch.fen_pattern = WhiteInCorner \o <<MATERIAL_CONSTRAINT, "K", "R">>
  /\ Len(fenmatch.pattern_tree) = 1
  /\ PatternAloneMatches(SwappedBoard(fenmatch.board))
  /\ ~fenmatch.match

\* ---------------------------------------------------------------------
\* --selectonly and --skipmatching in deal_with_game (SpecSplit).

\* The latest game was counted as matched; its match number is then
\* st.num_games_matched.
CountedAsMatched == Dealt /\ st.num_games_matched = cur.matched_before + 1

\* The latest game was written, to a main output file or to the file of -d.
WasOutput ==
  \/ InMainOutput
  \/ \E i \in 1..Len(st.duplicates) : st.duplicates[i] = GameItem(cur.ord)

\* The number lies in one of the ranges listed.
Listed(number, list) ==
  \E i \in 1..Len(list) : list[i].min <= number /\ number <= list[i].max

\* C19: with --selectonly and no other option that suppresses output, a
\* matched game is output iff its match number lies in one of the ranges.
C19_SelectOnly ==
  /\ CountedAsMatched
  /\ cfg.matching_game_numbers # <<>>
  /\ cfg.skip_game_numbers = <<>>
  => (WasOutput <=> Listed(st.num_games_matched, cfg.matching_game_numbers))

\* --selectonly 1,2 has put out the first two matches; --selectonly 2 has
\* passed over the first match.
C19_Witness ==
  /\ CountedAsMatched
  /\ cfg.skip_game_numbers = <<>>
  /\ cfg.matching_game_numbers = <<Range(1, 1), Range(2, 2)>>
  /\ st.num_games_matched = 2
  /\ WasOutput

FirstMatchPassedOver ==
  /\ CountedAsMatched
  /\ cfg.skip_game_numbers = <<>>
  /\ cfg.matching_game_numbers = <<Range(2, 2)>>
  /\ st.num_games_matched = 1
  /\ ~WasOutput

\* C20: with --skipmatching, in any combination with other options, no
\* matched game whose match number lies in a listed range is output.
C20_SkippedNeverOutput ==
  /\ CountedAsMatched
  /\ Listed(st.num_games_matched, cfg.skip_game_numbers)
  => ~WasOutput

\* C20 without --selectonly.
SkippedWithoutSelectOnly ==
  /\ CountedAsMatched
  /\ cfg.matching_game_numbers = <<>>
  /\ Listed(st.num_games_matched, cfg.skip_game_numbers)
  => ~WasOutput

\* --selectonly 2 --skipmatching 1,2: the second match is written.
SkipListLeftBehind ==
  /\ CountedAsMatched
  /\ cfg.matching_game_numbers = <<Range(2, 2)>>
  /\ cfg.skip_game_numbers = <<Range(1, 1), Range(2, 2)>>
  /\ st.num_games_matched = 2
  /\ st.next_game_number_to_skip = 1
  /\ WasOutput

(***************************************************************************)
(* --commented: check_for_comments, the last filter predicate of           *)
(* deal_with_game, over the games parse_game builds.                       *)
(***************************************************************************)
\* comments_in_move_list: a move of the list has a comment_list, or a move
\* of one of its variations has, at any depth.
RECURSIVE CommentsInMoveList(_)
CommentsInMoveList(move_list) ==
  \E i \in 1..Len(move_list) :
    \/ move_list[i].comment_list # <<>>
    \/ \E v \in 1..Len(move_list[i].Variants) :
         CommentsInMoveList(move_list[i].Variants[v].moves)

\* check_for_comments
CheckForComments(c, prefix_comment, moves) ==
  IF c.keep_only_commented_games
  THEN IF prefix_comment # <<>>
       THEN TRUE
       ELSE CommentsInMoveList(moves)
  ELSE TRUE

\* The game deal_with_game receives, check_for_comments giving its verdict
\* on the header's prefix comment and the move list handed over.
CommentedGameOf(c, r, n) ==
  [GameOf(c, r, n) EXCEPT
     !.verdict["check_for_comments"] =
        CheckForComments(c, r.prefix_comment, r.returned_move_list)]

ParseAndDealCommented ==
  /\ pc = "parse"
  /\ LET r == ParseGame(cfg, input, parser)
     IN DealWithParsedGame(r, CommentedGameOf(cfg, r, ngames + 1))
  /\ ngames' = ngames + 1
  /\ UNCHANGED <<cfg, curfile, pc, input, swapped>>
  /\ UNCHANGED unitVars

NextCommented == ParseAndDealCommented \/ ParseEnd \/ Main

\* --commented and --lichesscommentfix matter only to an input that holds
\* a comment.
CommentedConfigs(toks) ==
  { [Defaults EXCEPT !.keep_only_commented_games = commented,
                     !.lichess_comment_fix = fix] :
      commented \in IF \E i \in 1..Len(toks) : toks[i][1] = COMMENT
                    THEN BOOLEAN ELSE {TRUE},
      fix \in IF /\ \E i \in 1..Len(toks) : toks[i][1] = RAV_START
                 /\ \E i \in 1..Len(toks) : toks[i][1] = COMMENT
              THEN BOOLEAN ELSE {FALSE} }

InitCommented ==
  /\ input \in Inputs
  /\ InitDriver(CommentedConfigs(input))
  /\ parser = SkipToNextGame(input, StartOfInput)
  /\ parsed = NoParse
  /\ swapped = NoSwap

SpecCommented == InitCommented /\ [][NextCommented]_vars

\* The comments a parsed game holds: the prefix comment of the game, the
\* comments of its moves, of their NAGs, and of their variations (prefix,
\* suffix and within), at any depth.
RECURSIVE AnyCommentIn(_)
AnyCommentIn(move_list) ==
  \E i \in 1..Len(move_list) :
    \/ move_list[i].comment_list # <<>>
    \/ \E n \in 1..Len(move_list[i].NAGs) :
         move_list[i].NAGs[n].comments # <<>>
    \/ \E v \in 1..Len(move_list[i].Variants) :
         \/ move_list[i].Variants[v].prefix_comment # <<>>
         \/ move_list[i].Variants[v].suffix_comment # <<>>
         \/ AnyCommentIn(move_list[i].Variants[v].moves)

\* The game deal_with_game has just dealt with was read under --commented
\* and handed over with its move list.
DealtCommented ==
  /\ Dealt
  /\ parsed.handed
  /\ cfg.keep_only_commented_games
  /\ parsed.returned_move_list # <<>>

\* C21: with --commented a game is accepted by the has-comment filter iff
\* it holds a comment of any kind: the prefix comment of the game, a comment
\* of a move, of a NAG, or inside or around a variation.
C21_CommentedIffAnyComment ==
  DealtCommented =>
    (cur.accepted <=>
       \/ parsed.prefix_comment # <<>>
       \/ AnyCommentIn(parsed.returned_move_list))

\* The half that holds: a game the filter accepts holds a comment.
AcceptedHasComment ==
  DealtCommented =>
    (cur.accepted =>
       \/ parsed.prefix_comment # <<>>
       \/ AnyCommentIn(parsed.returned_move_list))

\* A game whose only comment follows a NAG is rejected.
NagCommentMissed ==
  /\ DealtCommented
  /\ ~cur.accepted
  /\ \E i \in 1..Len(parsed.returned_move_list) :
       \E n \in 1..Len(parsed.returned_move_list[i].NAGs) :
         parsed.returned_move_list[i].NAGs[n].comments # <<>>

\* A game whose only comment follows the ")" of a variation is rejected.
VariationCommentMissed ==
  /\ DealtCommented
  /\ ~cur.accepted
  /\ \E i \in 1..Len(parsed.returned_move_list) :
       \E v \in 1..Len(parsed.returned_move_list[i].Variants) :
         parsed.returned_move_list[i].Variants[v].suffix_comment # <<>>

(***************************************************************************)
(* The args file of -A: read_args_file and classify_arg (argsfile.c).  A   *)
(* line of the file is a sequence of characters.  A call the reader makes  *)
(* is logged as <<function, line number>>; what the called function does   *)
(* with the line is not modelled.                                          *)
(***************************************************************************)
MaxArgsLines == 4

argument_prefix == <<":", "-">>
argument_prefix_len == Len(argument_prefix)

NO_ARGUMENT_MATCH == "NO_ARGUMENT_MATCH"
TAGS_ARGUMENT == "t"
MOVES_ARGUMENT == "v"
POSITIONS_ARGUMENT == "x"
ENDINGS_ARGUMENT == "z"
ENDINGS_COLOURED_ARGUMENT == "y"
TAG_ROSTER_ARGUMENT == "R"
HASHCODE_MATCH_ARGUMENT == "H"
OUTPUT_FEN_STRING_ARGUMENT == "F"
LONG_FORM_ARGUMENT == "-"

\* The letters classify_arg accepts.
ArgumentLetters ==
  { "t", "v", "x", "z", "y", "T", "w", "W", "7", "A", "n", "C", "D", "N",
    "P", "F", "r", "s", "S", "M", "U", "V", "o", "l", "L", "a", "d", "e",
    "c", "f", "b", "p", "#", "E", "h", "?", "R", "-", "H" }

\* The arguments of read_args_file's switch that take a value on their own
\* line, or none: they apply to the current line only.
CurrentLineArguments ==
  { "o", "a", "l", "L", "d", "e", "c", "f", "b", "p", "#", "E", "A", "n",
    "T", "w", "W",
    "7", "h", "?", "C", "D", "P", "N", "r", "s", "S", "M", "U", "V", "Z" }

\* "Arguments whose values persist beyond the current line."
PersistentArguments ==
  { ENDINGS_ARGUMENT, ENDINGS_COLOURED_ARGUMENT, HASHCODE_MATCH_ARGUMENT,
    MOVES_ARGUMENT, OUTPUT_FEN_STRING_ARGUMENT, POSITIONS_ARGUMENT,
    TAG_ROSTER_ARGUMENT }

\* blank_line: the lines of the model hold no white space.
BlankLine(line) == line = <<>>

\* exit(status): nothing more is read.
ArgsExit(a, status) == [a EXCEPT !.exited = TRUE, !.status = status]

ArgsCall(a, function) == [a EXCEPT !.calls = Append(@, <<function, a.next>>)]

\* classify_arg; an unrecognised letter exits with status 1, shown here as
\* the type "exit".
ClassifyArg(line) ==
  IF /\ Len(line) >= 1 + argument_prefix_len
     /\ SubSeq(line, 1, argument_prefix_len) = argument_prefix
  THEN IF line[argument_prefix_len + 1] \in ArgumentLetters
       THEN line[argument_prefix_len + 1]
       ELSE "exit"
  ELSE NO_ARGUMENT_MATCH

\* The switch on linetype: the function a line without ":" is handed to.
HandleLine(a, line) ==
  CASE a.linetype = MOVES_ARGUMENT ->
         ArgsCall(a, "add_textual_variation_from_line")
    [] a.linetype = POSITIONS_ARGUMENT ->
         ArgsCall(a, "add_positional_variation_from_line")
    [] a.linetype = TAGS_ARGUMENT ->
         ArgsCall(a, "process_tag_line")
    [] a.linetype = TAG_ROSTER_ARGUMENT ->
         ArgsCall(a, "process_roster_line")
    [] a.linetype \in {ENDINGS_ARGUMENT, ENDINGS_COLOURED_ARGUMENT} ->
         ArgsCall(a, "process_material_description")
    [] OTHER -> ArgsExit(a, -1)

\* The switch on nexttype.  The long form of the model's lines has no
\* value, and no space.
ArgumentLine(a, line, nexttype) ==
  CASE nexttype = LONG_FORM_ARGUMENT ->
         [ArgsCall(a, "process_long_form_argument")
            EXCEPT !.linetype = NO_ARGUMENT_MATCH]
    [] nexttype \in CurrentLineArguments ->
         [ArgsCall(a, "process_argument")
            EXCEPT !.linetype = NO_ARGUMENT_MATCH]
    [] nexttype \in PersistentArguments ->
         ArgsCall(a, "process_argument")
    [] nexttype = TAGS_ARGUMENT -> [a EXCEPT !.linetype = nexttype]
    [] OTHER -> [a EXCEPT !.linetype = nexttype]

\* The body of the loop of read_args_file for one line.
ReadArgsLineAs(a, line, nexttype) ==
  IF nexttype = "exit"
  THEN ArgsExit(a, 1)
  ELSE IF nexttype = NO_ARGUMENT_MATCH
       THEN IF line[1] = argument_prefix[1]
            THEN ArgsCall(a, "add_filename_to_source_list")
            ELSE IF a.linetype # NO_ARGUMENT_MATCH
                 THEN HandleLine(a, line)
                 ELSE ArgsExit(a, 1)
       ELSE ArgumentLine(a, line, nexttype)

ReadArgsLine(a, line) ==
  IF BlankLine(line)
  THEN a
  ELSE ReadArgsLineAs(a, line, ClassifyArg(line))

\* One iteration of the loop: read_line returns the next line of the file.
ReadArgsFileLine ==
  /\ argsfile # Unused
  /\ argsfile.kind = "argsfile"
  /\ ~argsfile.exited
  /\ argsfile.next <= Len(argsfile.lines)
  /\ argsfile' = [ReadArgsLine(argsfile, argsfile.lines[argsfile.next])
                    EXCEPT !.next = @ + 1]
  /\ UNCHANGED besideArgs

\* read_line returns NULL: fclose, and read_args_file returns.
CloseArgsFile ==
  /\ argsfile # Unused
  /\ argsfile.kind = "argsfile"
  /\ ~argsfile.exited
  /\ ~argsfile.closed
  /\ argsfile.next > Len(argsfile.lines)
  /\ argsfile' = [argsfile EXCEPT !.closed = TRUE]
  /\ UNCHANGED besideArgs

NextArgsFile == ReadArgsFileLine \/ CloseArgsFile

\* The lines of the model: blank, the four multi-line arguments, -s, a
\* source file, a letter that is no argument, and a line without ":".
ArgsFileLines ==
  { <<>>, <<":", "-", "t">>, <<":", "-", "v">>, <<":", "-", "x">>,
    <<":", "-", "z">>, <<":", "-", "s">>, <<":", "g">>, <<":", "-", "q">>,
    <<"e">> }

InitArgsFile ==
  /\ DriverIdle
  /\ WriterIdle
  /\ TagsIdle
  /\ MaterialIdle
  /\ VariationIdle
  /\ FenIdle
  /\ \E lines \in SeqsUpTo(ArgsFileLines, MaxArgsLines) :
       argsfile = [ kind |-> "argsfile", lines |-> lines, next |-> 1,
                    linetype |-> NO_ARGUMENT_MATCH, calls |-> <<>>,
                    exited |-> FALSE, status |-> 0, closed |-> FALSE ]

SpecArgsFile == InitArgsFile /\ [][NextArgsFile]_vars

\* The line the reader has just dealt with, and its number.
LineRead == argsfile.next - 1

\* The letter of the multi-line argument in force at line i: the nearest
\* earlier line that starts with ":" introduces it ("" if none does).
RECURSIVE ActiveArgument(_)
ActiveArgument(i) ==
  IF i <= 1
  THEN ""
  ELSE LET line == argsfile.lines[i - 1]
       IN IF line # <<>> /\ line[1] = ":"
          THEN IF /\ Len(line) = 3
                  /\ line[2] = "-"
                  /\ line[3] \in {"t", "v", "x", "z"}
               THEN line[3]
               ELSE ""
          ELSE ActiveArgument(i - 1)

\* What processes the values of each multi-line argument.
ValueFunction(letter) ==
  CASE letter = "t" -> "process_tag_line"
    [] letter = "v" -> "add_textual_variation_from_line"
    [] letter = "x" -> "add_positional_variation_from_line"
    [] letter = "z" -> "process_material_description"

\* The reader has just read a line without ":" that follows the
\* introduction of a multi-line argument.
ValueLineRead ==
  /\ argsfile.next > 1
  /\ argsfile.lines[LineRead] # <<>>
  /\ argsfile.lines[LineRead][1] # ":"
  /\ ActiveArgument(LineRead) # ""

ProcessedAs(function) ==
  /\ ~argsfile.exited
  /\ argsfile.calls # <<>>
  /\ argsfile.calls[Len(argsfile.calls)] = <<function, LineRead>>

\* C22: after a line introducing a multi-line argument (:-t, :-v, :-x,
\* :-z) every following line without a leading ":" is processed as a value
\* of that argument, until the next line that starts with ":".
C22_ValueLinesApplied ==
  ValueLineRead => ProcessedAs(ValueFunction(ActiveArgument(LineRead)))

\* What holds of the four: the lines after :-t are tag criteria.
TagLinesApplied ==
  (ValueLineRead /\ ActiveArgument(LineRead) = "t")
    => ProcessedAs("process_tag_line")

\* A line after :-v ends the program: no argument type is in force.
VariationLineRefused ==
  /\ ValueLineRead
  /\ ActiveArgument(LineRead) = "v"
  /\ argsfile.exited
  /\ argsfile.status = 1

\* A line after :-t ... :-z is taken as a tag criterion.
MaterialLineTakenAsTags ==
  /\ ValueLineRead
  /\ ActiveArgument(LineRead) = "z"
  /\ ProcessedAs("process_tag_line")

(***************************************************************************)
(* The command line: the argument loop of main (pgne/src/main.c) with      *)
(* process_argument and process_long_form_argument (argsfile.c), for the   *)
(* flags -o -E -# -C --commented --wtm --btm, a flag and a long form that  *)
(* do not exist, and the names of source files.  An argument is            *)
(* <<argument[0], argument[1], the rest>>; a long form <<"-", "-", name>>. *)
(* A message written to the log file is kept as <<flag, kind>>, kind being *)
(* the word of the message that tells what went wrong.                     *)
(***************************************************************************)
MaxArgs == 3

EITHER_TO_MOVE == "EITHER_TO_MOVE"
WHITE_TO_MOVE == "WHITE_TO_MOVE"
BLACK_TO_MOVE == "BLACK_TO_MOVE"

\* The fields of GlobalState the flags of the model read or set.
ArgumentDefaults ==
  [ ECO_level |-> DONT_DIVIDE, games_per_file |-> 0,
    output_filename |-> "", keep_comments |-> TRUE,
    keep_only_commented_games |-> FALSE, whose_move |-> EITHER_TO_MOVE,
    source_files |-> 0 ]

\* fprintf(globals->logfile, ...)
ArgsLog(a, flag, kind) == [a EXCEPT !.log = Append(@, <<flag, kind>>)]

\* skip an argument of the command line
ArgsAdvance(a, n) == [a EXCEPT !.argnum = @ + n]

\* process_argument, for the letters of the model.  A NULL output_filename
\* is "", and the number attached to -E and -# is a digit of 1..9.
ProcessArgument(a, arg_letter, associated_value) ==
  CASE arg_letter = "o" ->
         IF a.globals.ECO_level > 0
         THEN ArgsLog(a, "-o", "conflicts")
         ELSE IF a.globals.games_per_file > 0
         THEN ArgsLog(a, "-o", "conflicts")
         ELSE IF a.globals.output_filename # ""
         THEN ArgsExit(ArgsLog(a, "-o", "already selected"), 1)
         ELSE IF associated_value = ""
         THEN ArgsExit(ArgsLog(a, "-o", "Usage"), 1)
         ELSE [a EXCEPT !.globals.output_filename = associated_value]
    [] arg_letter = "E" ->
         IF a.globals.output_filename # ""
         THEN ArgsExit(ArgsLog(a, "-E", "already selected"), 1)
         ELSE IF a.globals.games_per_file > 0
         THEN ArgsExit(ArgsLog(a, "-E", "conflicts"), 1)
         ELSE IF ~IsDigit(associated_value)
         THEN ArgsExit(ArgsLog(a, "-E", "requires a number"), 1)
         ELSE [a EXCEPT !.globals.ECO_level = DigitValue(associated_value)]
    [] arg_letter = "#" ->
         IF a.globals.ECO_level > 0
         THEN ArgsExit(ArgsLog(a, "-#", "conflicts"), 1)
         ELSE IF a.globals.output_filename # ""
         THEN ArgsExit(ArgsLog(a, "-#", "already selected"), 1)
         ELSE IF ~IsDigit(associated_value)
         THEN ArgsExit(ArgsLog(a, "-#", "should be followed"), 1)
         ELSE [a EXCEPT
                 !.globals.games_per_file = DigitValue(associated_value)]
    [] arg_letter = "C" ->
         IF a.globals.keep_only_commented_games
         THEN ArgsExit(ArgsLog(a, "-C", "clashes"), 1)
         ELSE [a EXCEPT !.globals.keep_comments = FALSE]
    [] OTHER -> ArgsLog(a, "-" \o arg_letter, "Unrecognized argument")

\* process_long_form_argument, for the long forms of the model: the state
\* it leaves and the number of arguments it used.
ProcessLongFormArgument(a, argument, associated_value) ==
  CASE argument = "btm" ->
         [ a |-> IF a.globals.whose_move = EITHER_TO_MOVE
                 THEN [a EXCEPT !.globals.whose_move = BLACK_TO_MOVE]
                 ELSE ArgsLog(a, "--btm", "conflicts"),
           used |-> 1 ]
    [] argument = "wtm" ->
         [ a |-> IF a.globals.whose_move = EITHER_TO_MOVE
                 THEN [a EXCEPT !.globals.whose_move = WHITE_TO_MOVE]
                 ELSE ArgsLog(a, "--wtm", "conflicts"),
           used |-> 1 ]
    [] argument = "commented" ->
         [ a |-> IF ~a.globals.keep_comments
                 THEN ArgsExit(ArgsLog(a, "--commented", "clashes"), 1)
                 ELSE [a EXCEPT !.globals.keep_only_commented_games = TRUE],
           used |-> 1 ]
    [] OTHER ->
         [ a |-> ArgsExit(ArgsLog(a, "--" \o argument,
                                  "Unrecognised long-form argument"), 1),
           used |-> 1 ]

\* The arguments with a required file name or value: taken from the next
\* argument if it is not attached to the letter.
WithRequiredValue(a, argument) ==
  IF argument[3] = ""
  THEN LET value == IF a.argnum + 1 <= Len(a.argv)
                    THEN a.argv[a.argnum + 1]
                    ELSE <<"", "", "">>
           taken == IF a.argnum + 1 <= Len(a.argv) THEN 2 ELSE 1
       IN IF value[1] = "" \/ value[1] = "-"
          THEN ArgsExit(ArgsLog(ArgsAdvance(a, taken),
                                "-" \o argument[2], "Usage"), 1)
          ELSE ProcessArgument(ArgsAdvance(a, taken), argument[2],
                               value[1] \o value[2] \o value[3])
  ELSE ProcessArgument(ArgsAdvance(a, 1), argument[2], argument[3])

\* The body of the loop of main for the argument at argnum.
MainArgumentOf(a, argument) ==
  IF argument[1] = "-"
  THEN CASE argument[2] = "C" ->
              ProcessArgument(ArgsAdvance(a, 1), argument[2], "")
         [] argument[2] = "-" ->
              LET done ==
                    ProcessLongFormArgument(
                      a, argument[3],
                      IF a.argnum + 1 <= Len(a.argv)
                      THEN a.argv[a.argnum + 1] ELSE <<"", "", "">>)
              IN ArgsAdvance(done.a, done.used)
         [] argument[2] \in {"o", "E", "#"} ->
              WithRequiredValue(a, argument)
         [] OTHER ->
              ArgsExit(ArgsLog(a, "-" \o argument[2], "Unknown flag"), 1)
  ELSE [ArgsAdvance(a, 1) EXCEPT !.globals.source_files = @ + 1]

MainArgument ==
  /\ argsfile # Unused
  /\ argsfile.kind = "argv"
  /\ ~argsfile.exited
  /\ argsfile.argnum <= Len(argsfile.argv)
  /\ argsfile' = MainArgumentOf(argsfile, argsfile.argv[argsfile.argnum])
  /\ UNCHANGED besideArgs

\* The arguments are read: main goes on to open the input and calls
\* yyparse.
MainParse ==
  /\ argsfile # Unused
  /\ argsfile.kind = "argv"
  /\ ~argsfile.exited
  /\ ~argsfile.parsing
  /\ argsfile.argnum > Len(argsfile.argv)
  /\ argsfile' = [argsfile EXCEPT !.parsing = TRUE]
  /\ UNCHANGED besideArgs

NextArguments == MainArgument \/ MainParse

Arguments ==
  { <<"-", "o", "f">>, <<"-", "o", "">>, <<"-", "E", "1">>,
    <<"-", "#", "2">>, <<"-", "C", "">>, <<"-", "-", "commented">>,
    <<"-", "-", "wtm">>, <<"-", "-", "btm">>, <<"-", "q", "">>,
    <<"-", "-", "nosuch">>, <<"g", "", "">> }

InitArguments ==
  /\ DriverIdle
  /\ WriterIdle
  /\ TagsIdle
  /\ MaterialIdle
  /\ VariationIdle
  /\ FenIdle
  /\ \E argv \in SeqsUpTo(Arguments, MaxArgs) :
       argsfile = [ kind |-> "argv", argv |-> argv, argnum |-> 1,
                    globals |-> ArgumentDefaults, log |-> <<>>,
                    exited |-> FALSE, status |-> 0, parsing |-> FALSE ]

SpecArguments == InitArguments /\ [][NextArguments]_vars

\* The log file holds a message of one of the kinds.
Reported(kinds) ==
  \E i \in 1..Len(argsfile.log) : argsfile.log[i][2] \in kinds

ExitedAtOnce ==
  /\ argsfile.exited
  /\ argsfile.status = 1
  /\ ~argsfile.parsing

\* C23: every configuration error is fatal: once argument processing has
\* met an unrecognised option, or a flag it reports as conflicting or
\* clashing with one already given, the program ends with exit status 1
\* and no game is processed.
C23_ConfigurationErrorsFatal ==
  Reported({"conflicts", "clashes", "Unknown flag", "Unrecognized argument",
            "Unrecognised long-form argument"})
    => ExitedAtOnce

\* What holds: an unrecognised option and a flag reported as clashing end
\* the program.
UnknownAndClashingFatal ==
  Reported({"clashes", "Unknown flag", "Unrecognised long-form argument"})
    => ExitedAtOnce

\* -o given after -E or -# is reported as conflicting; the games are read
\* all the same.
ConflictingOutputFileIgnored ==
  /\ Reported({"conflicts"})
  /\ argsfile.parsing
  /\ argsfile.globals.output_filename = ""
  /\ \E i \in 1..Len(argsfile.argv) :
       argsfile.argv[i][2] = "o" /\ i < argsfile.argnum

\* --btm after --wtm is reported as conflicting; the games are read.
ConflictingSideToMoveIgnored ==
  /\ argsfile.log = << <<"--btm", "conflicts">> >>
  /\ argsfile.parsing
  /\ argsfile.globals.whose_move = WHITE_TO_MOVE

(***************************************************************************)
(* The order in which deal_with_game calls the filter predicates: the      *)
(* operands of && are evaluated from the left, up to the first that is     *)
(* false.                                                                  *)
(***************************************************************************)
\* Every operand evaluated, whatever the ones before it returned.
RECURSIVE EvaluatedThroughout(_, _)
EvaluatedThroughout(v, i) ==
  IF i > Len(Preds)
  THEN <<>>
  ELSE <<Preds[i]>> \o EvaluatedThroughout(v, i + 1)

\* The calls made by the condition of deal_with_game from its i-th operand
\* on, for a game with the verdicts v.
RECURSIVE Evaluated(_, _)
Evaluated(v, i) ==
  IF i > Len(Preds)
  THEN <<>>
  ELSE <<Preds[i]>> \o (IF v[Preds[i]] THEN Evaluated(v, i + 1) ELSE <<>>)

\* cur with the verdicts of the game and the calls made for it.
SeenEvaluated(g, s) ==
  LET seen == Seen(g, s)
  IN [ f \in DOMAIN seen \cup {"verdict", "evaluated"} |->
         CASE f = "verdict" -> g.verdict
           [] f = "evaluated" -> Evaluated(g.verdict, 1)
           [] OTHER -> seen[f] ]

\* One iteration of the loop of parse_opt_game_list, the calls of the
\* predicates being recorded.
FilterGame ==
  /\ pc = "parse"
  /\ ngames < MaxGames
  /\ ~FinishedProcessing(cfg, st)
  /\ \E f \in curfile..NumFiles :
       \E g \in GamesAt(cfg, ngames + 1, f) :
         /\ Legal(cfg, g)
         /\ st' = DealWithGame(cfg, st, g)
         /\ cur' = SeenEvaluated(g, st)
         /\ curfile' = f
  /\ ngames' = ngames + 1
  /\ UNCHANGED <<cfg, pc, input, parser, parsed, swapped>>
  /\ UNCHANGED unitVars

NextFilters == FilterGame \/ LoopExit \/ Main

InitFilters ==
  InitWith({Defaults, [Defaults EXCEPT !.non_matching_file = TRUE]})

SpecFilters == InitFilters /\ [][NextFilters]_vars

\* The order of the description: stalemate-only and
\* insufficient-material-only follow checkmate-only, the N-move rule
\* follows repetition.
DescribedOrder ==
  << "consistent_FEN_tags", "check_tag_details_not_ECO", "check_setup_tag",
     "check_duplicate_setup", "apply_move_list", "check_move_bounds",
     "check_textual_variations", "check_for_material_match",
     "check_for_only_checkmate", "check_for_only_stalemate",
     "check_for_only_insufficient_material", "check_for_only_repetition",
     "check_for_N_move_rule", "check_ECO_tag", "check_for_comments" >>

\* The calls made for the game just dealt with follow order, each but the
\* last accepted the game, and the calls stop short of the end of order
\* only at a predicate that rejected it.
EvaluatedInOrder(order) ==
  LET made == cur.evaluated
  IN /\ Len(made) <= Len(order)
     /\ made = SubSeq(order, 1, Len(made))
     /\ \A i \in 1..(Len(made) - 1) : cur.verdict[made[i]]
     /\ Len(made) < Len(order) => ~cur.verdict[made[Len(made)]]

RepetitionFollowsCheckmate ==
  /\ Dealt
  /\ Len(cur.evaluated) >= 10
  /\ cur.evaluated[9] = "check_for_only_checkmate"
  /\ cur.evaluated[10] = "check_for_only_repetition"

(***************************************************************************)
(* The storage of a game: what parse_game allocates for it and what is     *)
(* freed by parse_game, by deal_with_game and by parse_opt_game_list.  An  *)
(* item of storage is <<"move", p>> for the Move read at token p (with its *)
(* strings), <<"comment", p>> for the comment read at token p, and         *)
(* <<"tag", name>> for the string Tags[name] points to.  A tag string that *)
(* a later tag pair of the same name replaced is not followed.             *)
(***************************************************************************)
CommentItems(list) == {<<"comment", list[i]>> : i \in 1..Len(list)}

\* free_move_list: the items freed with a list of moves, through
\* free_NAG_list, free_comment_list and free_variation.
RECURSIVE FreeMoveList(_)
FreeMoveList(move_list) ==
  UNION { {<<"move", move_list[i].at>>}
            \cup CommentItems(move_list[i].comment_list)
            \cup UNION { CommentItems(move_list[i].NAGs[n].comments) :
                           n \in 1..Len(move_list[i].NAGs) }
            \cup UNION { CommentItems(move_list[i].Variants[v].prefix_comment)
                           \cup CommentItems(
                                  move_list[i].Variants[v].suffix_comment)
                           \cup FreeMoveList(move_list[i].Variants[v].moves) :
                           v \in 1..Len(move_list[i].Variants) } :
          i \in 1..Len(move_list) }

\* free_tags
FreeTags(Tags) == {<<"tag", name>> : name \in {n \in TagNames : Tags[n] # NullTag}}

\* What a call of parse_game leaves allocated for the game: the tags, the
\* prefix comment, the move list with all that hangs from it, and the
\* hanging comment of a game without moves.
AllocatedBy(r) ==
  FreeTags(r.Tags)
    \cup CommentItems(r.freed)
    \cup CommentItems(r.prefix_comment)
    \cup CommentItems(r.hanging_comment)
    \cup FreeMoveList(r.move_list)

\* What parse_game frees itself: the comments ahead of the tags.  Of the
\* hanging comment of a game without moves it frees the first list node
\* only, not the comments.
FreedByParseGame(r) == CommentItems(r.freed)

\* The end of deal_with_game: free_comment_list of the prefix comment,
\* free_tags, free_move_list(current_game.moves).
FreedByDealWithGame(r) ==
  CommentItems(r.prefix_comment)
    \cup FreeTags(r.Tags)
    \cup FreeMoveList(r.returned_move_list)

\* parsed with the storage of the game.
StorageOutcome(r, handed, released) ==
  LET outcome == Outcome(r, handed)
  IN [ f \in DOMAIN outcome \cup {"allocated", "released"} |->
         CASE f = "allocated" -> AllocatedBy(r)
           [] f = "released" -> released
           [] OTHER -> outcome[f] ]

\* One iteration of the loop of parse_opt_game_list.
DealWithStored(r, g) ==
  /\ r.ret
  /\ ~FinishedProcessing(cfg, st)
  /\ st' = DealWithGame(cfg, st, g)
  /\ cur' = Seen(g, st)
  /\ parser' = SetupForNewGame(r.ps)
  /\ parsed' = StorageOutcome(r, TRUE,
                              FreedByParseGame(r) \cup FreedByDealWithGame(r))

ParseAndDealStored ==
  /\ pc = "parse"
  /\ DealWithStored(ParseGame(cfg, input, parser),
                    GameOf(cfg, ParseGame(cfg, input, parser), ngames + 1))
  /\ ngames' = ngames + 1
  /\ UNCHANGED <<cfg, curfile, pc, input, swapped>>
  /\ UNCHANGED unitVars

\* The loop ends: the move list returned by the last call is freed.
LeaveStored(r) ==
  /\ ~(r.ret /\ ~FinishedProcessing(cfg, st))
  /\ parser' = r.ps
  /\ parsed' = StorageOutcome(r, FALSE,
                              FreedByParseGame(r)
                                \cup FreeMoveList(r.returned_move_list))

ParseEndStored ==
  /\ pc = "parse"
  /\ LeaveStored(ParseGame(cfg, input, parser))
  /\ pc' = "end"
  /\ UNCHANGED <<cfg, st, cur, curfile, ngames, input, swapped>>
  /\ UNCHANGED unitVars

NextStorage == ParseAndDealStored \/ ParseEndStored \/ Main

SpecStorage == InitParse /\ [][NextStorage]_vars

\* C25: all storage owned by a parsed game (its tag strings, the nodes of
\* its move list with their variations, NAGs and comments) is released
\* before the parsing of the next game begins.
C25_GameStorageReleased ==
  parsed.handed => parsed.allocated \subseteq parsed.released

\* What holds: the storage of a game that ends in a result after at least
\* one move is released.
ReleasedWhenResultFollowsMoves ==
  (parsed.handed /\ parsed.returned_move_list # <<>>)
    => parsed.allocated \subseteq parsed.released

\* The moves of a game without a result are still allocated when the next
\* game is parsed.
MovesOfUnfinishedGameLeft ==
  /\ parsed.handed
  /\ parsed.missing_result
  /\ \E p \in 1..Len(input) :
       <<"move", p>> \in parsed.allocated \ parsed.released

\* The comment before the result of a game without moves is still
\* allocated.
HangingCommentLeft ==
  /\ parsed.handed
  /\ parsed.move_list = <<>>
  /\ \E p \in 1..Len(input) :
       <<"comment", p>> \in parsed.allocated \ parsed.released

(***************************************************************************)
(* The pattern tree of fenmatcher.c as it is built and searched: a node is *)
(* a FENPatternMatch, its next_rank and alternative_rank pointers are      *)
(* sequences of no node (NULL) or one.  The constraint of a node that      *)
(* has none is NoCriteria.                                                 *)
(***************************************************************************)
MaxPatterns == 2

\* pattern_tree_insert: the linked list made of the ranks of one pattern,
\* from rank i on; the constraint is in the final link.
RECURSIVE RankList(_, _, _)
RankList(ranks, constraint, i) ==
  [ rank |-> ranks[i],
    alternative_rank |-> <<>>,
    next_rank |-> IF i # BOARDSIZE
                  THEN <<RankList(ranks, constraint, i + 1)>>
                  ELSE <<>>,
    constraint |-> IF i # BOARDSIZE THEN NoCriteria ELSE constraint ]

\* insert_pattern: the node after next has been inserted at it or below.
\* While the ranks are the same both lists are followed; at the end of the
\* list the patterns are duplicates and next is dropped.
RECURSIVE InsertPattern(_, _)
InsertPattern(node, next) ==
  IF node.rank = next.rank
  THEN IF node.next_rank # <<>>
       THEN [node EXCEPT !.next_rank =
               <<InsertPattern(node.next_rank[1], next.next_rank[1])>>]
       ELSE node
  ELSE IF node.alternative_rank # <<>>
       THEN [node EXCEPT !.alternative_rank =
               <<InsertPattern(node.alternative_rank[1], next)>>]
       ELSE [node EXCEPT !.alternative_rank = <<next>>]

\* pattern_tree_insert on the tree.
TreeInsert(pattern_tree, ranks, constraint) ==
  IF pattern_tree = <<>>
  THEN <<RankList(ranks, constraint, 1)>>
  ELSE <<InsertPattern(pattern_tree[1], RankList(ranks, constraint, 1))>>

\* pattern_match_rank: a label is found at pattern, one of its
\* alternatives or below them.
RECURSIVE PatternMatchRank(_, _, _)
PatternMatchRank(board, pattern, patternIndex) ==
  /\ pattern # <<>>
  /\ \/ /\ MatchHere(pattern[1].rank, board[patternIndex])
        /\ IF patternIndex = BOARDSIZE
           THEN \/ pattern[1].constraint = NoCriteria
                \/ ConstraintMaterialMatch(pattern[1].constraint,
                                           ExtractPiecesFromBoard(board))
           ELSE PatternMatchRank(board, pattern[1].next_rank,
                                 patternIndex + 1)
     \/ PatternMatchRank(board, pattern[1].alternative_rank, patternIndex)

\* add_fen_pattern without add_reverse: the tree and the list of the
\* patterns accepted so far.
AddToTree(f, s) ==
  IF s.ok
  THEN [f EXCEPT
          !.pattern_tree = TreeInsert(@, s.ranks, ConstraintOf(s, FALSE)),
          !.accepted = Append(@, [ranks |-> s.ranks,
                                  constraint |-> ConstraintOf(s, FALSE)]),
          !.added = @ + 1]
  ELSE [f EXCEPT !.added = @ + 1]

\* The patterns given to the tree: those of two ranks that share rank
\* patterns, one of them with and without constraints, and one that is
\* badly formed.
TreePatterns ==
  { AnyBoard,
    AnyBoard \o <<MATERIAL_CONSTRAINT, "K", "R">>,
    AnyBoard \o <<MATERIAL_CONSTRAINT, "K", "P">>,
    WhiteInCorner,
    <<"*", "/", "?", "R", "*">>,
    <<"m", "*", "/", "?", "R", "*">>,
    <<"m", "*", "/", "*">>,
    <<"*", "/", "/">> }

\* --fenpattern
AddFenPatternToTree ==
  /\ fenmatch # Unused
  /\ fenmatch.at = "tree"
  /\ fenmatch.added < MaxPatterns
  /\ \E fen_pattern \in TreePatterns :
       fenmatch' = AddToTree(fenmatch, ScanOf(fen_pattern))
  /\ UNCHANGED besideFen

\* pattern_match_board
MatchBoardInTree ==
  /\ fenmatch # Unused
  /\ fenmatch.at = "tree"
  /\ fenmatch' =
       [fenmatch EXCEPT
          !.at = "tree matched",
          !.match = PatternMatchRank(fenmatch.board, fenmatch.pattern_tree, 1)]
  /\ UNCHANGED besideFen

NextFenTree == AddFenPatternToTree \/ MatchBoardInTree

InitFenTree ==
  /\ DriverIdle
  /\ ArgsIdle
  /\ VariationIdle
  /\ MaterialIdle
  /\ WriterIdle
  /\ TagsIdle
  /\ \E board \in Boards :
       fenmatch = [at |-> "tree", added |-> 0, pattern_tree |-> <<>>,
                   accepted |-> <<>>, board |-> board, match |-> FALSE]

SpecFenTree == InitFenTree /\ [][NextFenTree]_vars

TreeMatched == fenmatch # Unused /\ fenmatch.at = "tree matched"

\* One of the accepted patterns, tried on its own, matches the board.
SomeAcceptedMatches ==
  \E i \in 1..Len(fenmatch.accepted) :
    PatternMatches(fenmatch.accepted[i], fenmatch.board)

\* C26: the pattern tree is equivalent to trying every added pattern on
\* its own: pattern_match_board reports a match iff one of the accepted
\* patterns matches all ranks of the board and its material constraint,
\* if it has one, holds.
C26_TreeAsIndependentPatterns ==
  TreeMatched => (fenmatch.match <=> SomeAcceptedMatches)

\* What holds: a match of the tree is a match of an accepted pattern, and
\* the tree misses none of patterns that differ in a rank.
TreeMatchIsPatternMatch ==
  TreeMatched =>
    /\ fenmatch.match => SomeAcceptedMatches
    /\ ( /\ SomeAcceptedMatches
         /\ \A i, j \in 1..Len(fenmatch.accepted) :
              i # j => fenmatch.accepted[i].ranks # fenmatch.accepted[j].ranks )
         => fenmatch.match

\* The second of two patterns with the same ranks and another constraint
\* matches the board, and the tree reports no match.
SecondConstraintDropped ==
  /\ TreeMatched
  /\ ~fenmatch.match
  /\ Len(fenmatch.accepted) = 2
  /\ fenmatch.accepted[1].ranks = fenmatch.accepted[2].ranks
  /\ fenmatch.accepted[1].constraint # fenmatch.accepted[2].constraint
  /\ PatternMatches(fenmatch.accepted[2], fenmatch.board)

(***************************************************************************)
(* --splitvariants: output_game and split_variants (grammar.c).  The game  *)
(* is the record [Tags, prefix_comment, moves]; out is what format_game    *)
(* was given at each call: the Result tag, the game's prefix comment and   *)
(* the main line with the comments of its moves.  A comment is named by    *)
(* the position of its token, so a list node is found as the code finds    *)
(* it, by identity.                                                        *)
(***************************************************************************)
MaxSplitDepth == 2
MaxVariantLexemes == 4

\* The copy of "*" split_variants stores in the Result tag.
StarCopy == "*"

\* format_game: the call is recorded with what it prints of the game.
FormatGame(s) ==
  [s EXCEPT !.out =
     Append(@, [ Result |-> s.Tags[RESULT_TAG],
                 prefix_comment |-> s.prefix_comment,
                 line |-> [i \in 1..Len(s.moves) |->
                             [at |-> s.moves[i].at,
                              comment_list |-> s.moves[i].comment_list]] ])]

\* The first loop of split_variants for one move: the suffix comment of
\* each of its variations is appended to the comments of the move.
RECURSIVE WithSuffixComments(_, _)
WithSuffixComments(comment_list, variants) ==
  IF variants = <<>>
  THEN comment_list
  ELSE WithSuffixComments(
         IF Head(variants).suffix_comment # <<>>
         THEN AppendComment(Head(variants).suffix_comment, comment_list)
         ELSE comment_list,
         Tail(variants))

GatherSuffixComments(moves) ==
  [i \in 1..Len(moves) |->
     [moves[i] EXCEPT
        !.comment_list = WithSuffixComments(@, moves[i].Variants),
        !.Variants = [v \in 1..Len(@) |->
                        [@[v] EXCEPT !.suffix_comment = <<>>]]]]

\* "Supply a result if it is missing."
WithResult(variant_moves) ==
  [variant_moves EXCEPT ![Len(variant_moves)].terminating_result = TRUE]

\* "Replace the main line with the variants" and append the prefix comment
\* of the variation to the move before (i = 1: to the game's).
ReplaceMainLine(s, i, variant) ==
  LET line == SubSeq(s.moves, 1, i - 1) \o WithResult(variant.moves)
  IN IF variant.prefix_comment = <<>>
     THEN [s EXCEPT !.moves = line]
     ELSE IF i > 1
          THEN [s EXCEPT !.moves =
                  [line EXCEPT ![i - 1].comment_list =
                     AppendComment(variant.prefix_comment, @)]]
          ELSE [s EXCEPT !.moves = line,
                         !.prefix_comment =
                            AppendComment(variant.prefix_comment, @)]

\* The appended comments left in place.
CutBeforeKeeping(list, prefix_comment) == list

\* "Remove the appended comments": the list is cut ahead of the node that
\* is the prefix comment; a list that does not hold it is left as it is.
CutBefore(list, prefix_comment) ==
  IF \E k \in 1..Len(list) : list[k] = prefix_comment[1]
  THEN SubSeq(list, 1,
              (CHOOSE k \in 1..Len(list) : list[k] = prefix_comment[1]) - 1)
  ELSE list

RemoveAppended(s, i, variant) ==
  IF variant.prefix_comment = <<>>
  THEN s
  ELSE IF i > 1
       THEN [s EXCEPT !.moves[i - 1].comment_list =
               CutBefore(@, variant.prefix_comment)]
       ELSE [s EXCEPT !.prefix_comment =
               CutBefore(@, variant.prefix_comment)]

\* The end of the loop body for a move: its variations are disposed of and
\* the move (with the moves behind it) is linked behind the move before.
RestoreMove(s, i, move) ==
  IF move[1].Variants # <<>>
  THEN [s EXCEPT !.moves =
          SubSeq(s.moves, 1, i - 1)
            \o <<[move[1] EXCEPT !.Variants = <<>>]>> \o Tail(move)]
  ELSE s

RECURSIVE SplitVariants(_, _, _)
RECURSIVE SplitMoves(_, _, _, _)
RECURSIVE SplitVariations(_, _, _, _, _, _)

\* The loop over the variations of the i-th move of the line; move is that
\* move with the moves behind it, v the variation reached.
SplitVariations(c, s, i, move, v, depth) ==
  IF v > Len(move[1].Variants)
  THEN RestoreMove(s, i, move)
  ELSE IF move[1].Variants[v].moves # <<>>
       THEN SplitVariations(
              c,
              RemoveAppended(
                SplitVariants(c, ReplaceMainLine(s, i, move[1].Variants[v]),
                              depth + 1),
                i, move[1].Variants[v]),
              i, move, v + 1, depth)
       ELSE SplitVariations(c, s, i, move, v + 1, depth)

\* The loop over the moves of the line.
SplitMoves(c, s, i, depth) ==
  IF i > Len(s.moves)
  THEN s
  ELSE SplitMoves(c,
                  SplitVariations(c, s, i, SubSeq(s.moves, i, Len(s.moves)),
                                  1, depth),
                  i + 1, depth)

\* split_variants once the main line of this level is formatted.
SplitBelow(c, s, depth) ==
  IF c.split_depth_limit = 0 \/ c.split_depth_limit > depth
  THEN [SplitMoves(c, [s EXCEPT !.Tags[RESULT_TAG] = StarCopy], 1, depth)
          EXCEPT !.Tags[RESULT_TAG] = s.Tags[RESULT_TAG]]
  ELSE s

SplitVariants(c, s, depth) ==
  SplitBelow(c, FormatGame([s EXCEPT !.moves = GatherSuffixComments(@)]),
             depth)

\* output_game
OutputGameSplitting(c, game) ==
  IF c.split_variants /\ c.keep_variations
  THEN SplitVariants(c, game, 0)
  ELSE FormatGame(game)

\* The game deal_with_game holds of a call of parse_game, nothing output.
CurrentGame(r) ==
  [ Tags |-> r.Tags, prefix_comment |-> r.prefix_comment,
    moves |-> r.returned_move_list, out |-> <<>> ]

\* parsed with the game as output_game left it.
SplitOutcome(r, handed) ==
  LET outcome == Outcome(r, handed)
  IN [ f \in DOMAIN outcome \cup {"game"} |->
         IF f = "game"
         THEN IF handed
              THEN OutputGameSplitting(cfg, CurrentGame(r))
              ELSE CurrentGame(NoParse)
         ELSE outcome[f] ]

\* One iteration of the loop of parse_opt_game_list: with the options of
\* this specification deal_with_game outputs every game it is given.
DealWithSplit(r, g) ==
  /\ r.ret
  /\ ~FinishedProcessing(cfg, st)
  /\ st' = DealWithGame(cfg, st, g)
  /\ cur' = Seen(g, st)
  /\ parser' = SetupForNewGame(r.ps)
  /\ parsed' = SplitOutcome(r, TRUE)

ParseAndDealSplit ==
  /\ pc = "parse"
  /\ DealWithSplit(ParseGame(cfg, input, parser),
                   GameOf(cfg, ParseGame(cfg, input, parser), ngames + 1))
  /\ ngames' = ngames + 1
  /\ UNCHANGED <<cfg, curfile, pc, input, swapped>>
  /\ UNCHANGED unitVars

LeaveSplit(r) ==
  /\ ~(r.ret /\ ~FinishedProcessing(cfg, st))
  /\ parser' = r.ps
  /\ parsed' = SplitOutcome(r, FALSE)

ParseEndSplit ==
  /\ pc = "parse"
  /\ LeaveSplit(ParseGame(cfg, input, parser))
  /\ pc' = "end"
  /\ UNCHANGED <<cfg, st, cur, curfile, ngames, input, swapped>>
  /\ UNCHANGED unitVars

NextSplitVariants == ParseAndDealSplit \/ ParseEndSplit \/ Main

\* The inputs: moves, comments, a result, and variations of one move: bare,
\* with a prefix comment, with a variation of its own, without moves.
CommentedVariationLexeme ==
  <<Tok(RAV_START), Tok(COMMENT), Tok(MOVE), Tok(RAV_END)>>

NestedVariationLexeme ==
  <<Tok(RAV_START), Tok(COMMENT), Tok(MOVE),
    Tok(RAV_START), Tok(COMMENT), Tok(MOVE), Tok(RAV_END), Tok(RAV_END)>>

EmptyVariationLexeme == <<Tok(RAV_START), Tok(COMMENT), Tok(RAV_END)>>

VariantLexemes ==
  { <<Tok(MOVE)>>, <<Tok(COMMENT)>>, <<Tok(TERMINATING_RESULT)>>,
    TagLexeme(RESULT_TAG), VariationLexeme, CommentedVariationLexeme,
    NestedVariationLexeme, EmptyVariationLexeme }

VariantInputs ==
  {Flatten(l) :
     l \in UNION {[1..n -> VariantLexemes] : n \in 0..MaxVariantLexemes}}

SplitVariantsConfigs ==
  { [Defaults EXCEPT !.split_variants = TRUE, !.split_depth_limit = limit,
                     !.lichess_comment_fix = fix] :
      limit \in 0..MaxSplitDepth, fix \in BOOLEAN }
    \cup {Defaults}

InitSplitVariants ==
  /\ input \in VariantInputs
  /\ InitDriver(SplitVariantsConfigs)
  /\ parser = SkipToNextGame(input, StartOfInput)
  /\ parsed = NoParse
  /\ swapped = NoSwap

SpecSplitVariants == InitSplitVariants /\ [][NextSplitVariants]_vars

\* output_game has returned for a game split into its variations.
SplitReturned ==
  /\ parsed.handed
  /\ cfg.split_variants

\* The positions of the moves of a line.
MovesOfLine(moves) == [i \in 1..Len(moves) |-> moves[i].at]

\* The prefix comments of the variations of a move list, at any depth.
RECURSIVE PrefixCommentsOf(_)
PrefixCommentsOf(move_list) ==
  UNION { UNION { {move_list[i].Variants[v].prefix_comment[k] :
                     k \in 1..Len(move_list[i].Variants[v].prefix_comment)}
                    \cup PrefixCommentsOf(move_list[i].Variants[v].moves) :
                  v \in 1..Len(move_list[i].Variants) } :
          i \in 1..Len(move_list) }

\* The comments of the game and of the moves of its main line.
MainLineComments(game) ==
  {game.prefix_comment[k] : k \in 1..Len(game.prefix_comment)}
    \cup UNION { {game.moves[i].comment_list[k] :
                    k \in 1..Len(game.moves[i].comment_list)} :
                 i \in 1..Len(game.moves) }

\* C27: when output_game returns for a game processed with --splitvariants
\* the Result tag holds its original value, having been "*" only while the
\* split-out variations were emitted; the main line is the same sequence of
\* moves as before the call; and no prefix comment of a variation is left
\* on the game or on a move of the main line.
C27_SplitRestoresGame ==
  SplitReturned =>
    /\ parsed.game.Tags = parsed.Tags
    /\ parsed.game.out[1].Result = parsed.Tags[RESULT_TAG]
    /\ \A k \in 2..Len(parsed.game.out) :
         parsed.game.out[k].Result = StarCopy
    /\ MovesOfLine(parsed.game.moves) = MovesOfLine(parsed.returned_move_list)
    /\ parsed.game.prefix_comment = parsed.prefix_comment
    /\ MainLineComments(parsed.game)
         \cap PrefixCommentsOf(parsed.returned_move_list) = {}

\* A variation with a prefix comment was emitted behind a move of the main
\* line and with the comment on that move.
C27_Witness ==
  /\ SplitReturned
  /\ \E k \in 2..Len(parsed.game.out) :
       \E i \in 1..Len(parsed.game.out[k].line) :
         \E j \in 1..Len(parsed.game.out[k].line[i].comment_list) :
           parsed.game.out[k].line[i].comment_list[j]
             \in PrefixCommentsOf(parsed.returned_move_list)

\* The game as a whole is as parse_game returned it.
C27_GameAsFound ==
  SplitReturned =>
    /\ parsed.game.Tags = parsed.Tags
    /\ parsed.game.prefix_comment = parsed.prefix_comment
    /\ parsed.game.moves = parsed.returned_move_list

\* The variations of the game are gone when output_game returns.
VariationsDisposedOf ==
  /\ SplitReturned
  /\ \E i \in 1..Len(parsed.returned_move_list) :
       /\ parsed.returned_move_list[i].Variants # <<>>
       /\ parsed.game.moves[i].Variants = <<>>

(***************************************************************************)
(* The bounds on the length of a game: -b and -p in process_argument, the  *)
(* long forms --minmoves, --maxmoves, --minply, --maxply, set_move_bounds  *)
(* (argsfile.c) and check_move_bounds (moves.c).  The bounds are unsigned; *)
(* the model keeps them at UnsignedBits bits.                              *)
(***************************************************************************)
MaxBoundSettings == 3
UnsignedBits == 16

MOVE_BOUNDS_ARGUMENT == "b"
PLY_BOUNDS_ARGUMENT == "p"

\* main.c: lower_move_bound, upper_move_bound of the initial StateInfo.
DefaultLowerMoveBound == 0
DefaultUpperMoveBound == 10000

RECURSIVE Pow2(_)
Pow2(n) == IF n = 0 THEN 1 ELSE 2 * Pow2(n - 1)

Unsigned(n) == n % Pow2(UnsignedBits)

\* The lower bound stored for number: 2 * (number - 1) + 1 for moves.
LowerBoundFor(bounds_or_ply, number) ==
  IF bounds_or_ply = MOVE_BOUNDS_ARGUMENT
  THEN Unsigned(Unsigned(2 * Unsigned(number - 1)) + 1)
  ELSE number

\* The upper bound stored for number: 2 * number for moves.
UpperBoundFor(bounds_or_ply, number) ==
  IF bounds_or_ply = MOVE_BOUNDS_ARGUMENT
  THEN Unsigned(2 * number)
  ELSE number

\* The test of case 'l': number as given against the upper bound in plies.
LowerBoundAccepted(g, bounds_or_ply, number) ==
  number <= g.upper_move_bound

\* set_move_bounds: the globals after the call and the value returned.
SetMoveBounds(g, bounds_or_ply, limit, number) ==
  CASE limit = "e" ->
         [ globals |-> [g EXCEPT
                          !.check_move_bounds = TRUE,
                          !.lower_move_bound =
                             LowerBoundFor(bounds_or_ply, number),
                          !.upper_move_bound =
                             UpperBoundFor(bounds_or_ply, number)],
           Ok |-> TRUE ]
    [] limit = "l" ->
         IF LowerBoundAccepted(g, bounds_or_ply, number)
         THEN [ globals |-> [g EXCEPT
                               !.check_move_bounds = TRUE,
                               !.lower_move_bound =
                                  LowerBoundFor(bounds_or_ply, number)],
                Ok |-> TRUE ]
         ELSE [ globals |-> [g EXCEPT !.check_move_bounds = TRUE],
                Ok |-> FALSE ]
    [] limit = "u" ->
         IF number >= g.lower_move_bound
         THEN [ globals |-> [g EXCEPT
                               !.check_move_bounds = TRUE,
                               !.upper_move_bound =
                                  UpperBoundFor(bounds_or_ply, number)],
                Ok |-> TRUE ]
         ELSE [ globals |-> [g EXCEPT !.check_move_bounds = TRUE],
                Ok |-> FALSE ]
    [] OTHER -> [ globals |-> [g EXCEPT !.check_move_bounds = TRUE],
                  Ok |-> FALSE ]

\* check_move_bounds
CheckMoveBounds(g, plycount) ==
  IF g.check_move_bounds
  THEN g.lower_move_bound <= plycount /\ plycount <= g.upper_move_bound
  ELSE TRUE

\* The setting is added to those made, with what set_move_bounds returned.
BoundSet(a, setting, r) ==
  [a EXCEPT !.globals = r.globals,
            !.settings = Append(@, [ letter |-> setting[1],
                                     limit |-> setting[2],
                                     number |-> setting[3],
                                     Ok |-> r.Ok ])]

\* process_argument for -b and -p, the value being [elu]number: exit(1)
\* when set_move_bounds returns false.
BoundsArgument ==
  /\ argsfile.kind = "bounds"
  /\ ~argsfile.exited
  /\ Len(argsfile.settings) < MaxBoundSettings
  /\ \E arg_letter \in {MOVE_BOUNDS_ARGUMENT, PLY_BOUNDS_ARGUMENT},
        which \in {"e", "l", "u"}, number \in argsfile.numbers :
       LET r == SetMoveBounds(argsfile.globals, arg_letter, which, number)
           a == BoundSet(argsfile, <<arg_letter, which, number>>, r)
       IN argsfile' = IF r.Ok THEN a ELSE ArgsExit(a, 1)
  /\ UNCHANGED besideArgs

\* process_long_form_argument for --minmoves, --maxmoves, --minply and
\* --maxply: what set_move_bounds returns is not looked at.
BoundsLongForm ==
  /\ argsfile.kind = "bounds"
  /\ ~argsfile.exited
  /\ Len(argsfile.settings) < MaxBoundSettings
  /\ \E argument \in {"minmoves", "maxmoves", "minply", "maxply"},
        number \in argsfile.numbers :
       LET bounds_or_ply == IF argument \in {"minmoves", "maxmoves"}
                            THEN MOVE_BOUNDS_ARGUMENT
                            ELSE PLY_BOUNDS_ARGUMENT
           limit == IF argument \in {"minmoves", "minply"} THEN "l" ELSE "u"
       IN argsfile' =
            BoundSet(argsfile, <<argument, limit, number>>,
                     SetMoveBounds(argsfile.globals, bounds_or_ply, limit,
                                   number))
  /\ UNCHANGED besideArgs

NextMoveBounds == BoundsArgument \/ BoundsLongForm

\* The numbers given with the settings of a run.
BoundNumbers == {0, 1, 3, 20, 30, 6000}

InitMoveBounds ==
  /\ DriverIdle
  /\ WriterIdle
  /\ TagsIdle
  /\ MaterialIdle
  /\ VariationIdle
  /\ FenIdle
  /\ argsfile = [ kind |-> "bounds", numbers |-> BoundNumbers,
                  globals |-> [ check_move_bounds |-> FALSE,
                                lower_move_bound |-> DefaultLowerMoveBound,
                                upper_move_bound |-> DefaultUpperMoveBound ],
                  settings |-> <<>>, exited |-> FALSE, status |-> 0 ]

SpecMoveBounds == InitMoveBounds /\ [][NextMoveBounds]_vars

\* Some settings were made and the program goes on to read the games.
BoundsSet ==
  /\ argsfile.kind = "bounds"
  /\ argsfile.settings # <<>>
  /\ ~argsfile.exited

\* C28: after any sequence of bound settings, the accepted ones applied and
\* the rejected ones ignored, lower_move_bound <= upper_move_bound.
C28_LowerNotAboveUpper ==
  BoundsSet =>
    argsfile.globals.lower_move_bound <= argsfile.globals.upper_move_bound

\* With the bounds given in plies (-p, --minply, --maxply) alone the bounds
\* stay ordered, and check_move_bounds accepts the lower bound itself.
PlyBoundsOrdered ==
  (/\ BoundsSet
   /\ \A i \in 1..Len(argsfile.settings) :
        argsfile.settings[i].letter \in {PLY_BOUNDS_ARGUMENT, "minply", "maxply"})
    => /\ argsfile.globals.lower_move_bound
            <= argsfile.globals.upper_move_bound
       /\ CheckMoveBounds(argsfile.globals,
                          argsfile.globals.lower_move_bound)

\* A lower bound in moves is accepted against an upper bound it exceeds
\* once doubled: no ply count is within the bounds.
LowerBoundInMovesAboveUpper ==
  /\ BoundsSet
  /\ \A i \in 1..Len(argsfile.settings) : argsfile.settings[i].Ok
  /\ argsfile.globals.lower_move_bound > argsfile.globals.upper_move_bound
  /\ argsfile.settings[Len(argsfile.settings)].limit = "l"
  /\ \A plycount \in 0..(Pow2(UnsignedBits) - 1) :
       ~CheckMoveBounds(argsfile.globals, plycount)

\* "Equal to 0 moves": the lower bound wraps round to the largest unsigned.
EqualToZeroMovesWraps ==
  /\ BoundsSet
  /\ argsfile.settings[Len(argsfile.settings)].limit = "e"
  /\ argsfile.settings[Len(argsfile.settings)].number = 0
  /\ argsfile.globals.lower_move_bound = Pow2(UnsignedBits) - 1
  /\ argsfile.globals.upper_move_bound = 0

(***************************************************************************)
(* The memory the FEN pattern module touches (fenmatcher.c).  ranks is an  *)
(* array of BOARDSIZE slots, a rank of an accepted pattern is a string     *)
(* that ends in its NUL, the text of a rank of the board is BOARDSIZE      *)
(* characters and a NUL.  A slot is named by its index from 0 as in the    *)
(* code; the character at p of a string of length n is inside the string   *)
(* for p <= n + 1.                                                         *)
(***************************************************************************)
MaxFenPatternLength == 6

\* The slots ranks[dividers] add_fen_pattern stores a rank in: one at each
\* "/" that ends a rank with a symbol in it, and one for the final rank.
RankSlotsWritten(fen_pattern) ==
  {i - 1 : i \in 1..Len(ScanOf(fen_pattern).ranks)}

\* The character at p is outside the string and its terminator.
Outside(regexp, p) == p > Len(regexp) + 1

RECURSIVE ReadsOutside(_, _, _)
\* matchstar from the end of the text down to the first match.
StarReadsOutside(regexp, p, text) ==
  \E t \in 1..(Len(text) + 1) :
    /\ ReadsOutside(regexp, p, From(text, t))
    /\ \A u \in (t + 1)..(Len(text) + 1) :
         ~MatchHere(From(regexp, p), From(text, u))

\* matchccl: the closure starts at p; having met a character that matches
\* it steps to CCL_END or to the NUL and goes on from the character after.
CclReadsOutsideAt(regexp, text, stop) ==
  /\ MatchOne(CharAt(regexp, stop), text[1])
  /\ ReadsOutside(regexp, ClosureEnd(regexp, stop) + 1, Tail(text))

\* matchnccl
NcclReadsOutsideAt(regexp, text, stop) ==
  /\ CharAt(regexp, stop) = CCL_END
  /\ ReadsOutside(regexp, stop + 1, Tail(text))

\* matchhere(regexp + p - 1, text) reads a character of regexp outside the
\* string: the calls follow those of MatchHere.
ReadsOutside(regexp, p, text) ==
  IF Outside(regexp, p) THEN TRUE
  ELSE IF CharAt(regexp, p) = NUL /\ text = <<>> THEN FALSE
  ELSE IF CharAt(regexp, p) = ZERO_OR_MORE_OF_ANYTHING
  THEN StarReadsOutside(regexp, p + 1, text)
  ELSE IF text = <<>> \/ CharAt(regexp, p) = NUL THEN FALSE
  ELSE IF regexp[p] = ANY_SQUARE_STATE
  THEN ReadsOutside(regexp, p + 1, Tail(text))
  ELSE IF regexp[p] \in {NON_EMPTY_SQUARE, ANY_WHITE_PIECE, ANY_BLACK_PIECE,
                         NOT_A_PAWN}
  THEN MatchOne(regexp[p], text[1]) /\ ReadsOutside(regexp, p + 1, Tail(text))
  ELSE IF regexp[p] = CCL_START
  THEN IF CharAt(regexp, p + 1) = NCCL
       THEN NcclReadsOutsideAt(regexp, text,
                               ClosureStop(regexp, text[1], p + 2))
       ELSE CclReadsOutsideAt(regexp, text,
                              ClosureStop(regexp, text[1], p + 1))
  ELSE IF IsDigit(regexp[p]) /\ DigitValue(regexp[p]) \in 1..8
  THEN /\ EmptyMatched(text, DigitValue(regexp[p]), 0) = DigitValue(regexp[p])
       /\ ReadsOutside(regexp, p + 1, From(text, DigitValue(regexp[p]) + 1))
  ELSE regexp[p] = text[1] /\ ReadsOutside(regexp, p + 1, Tail(text))

\* pattern_match_rank down the ranks of a pattern: a rank is matched once
\* the ranks before it have matched.
BoardReadsOutside(ranks, board) ==
  \E patternIndex \in 1..BOARDSIZE :
    /\ \A i \in 1..(patternIndex - 1) : MatchHere(ranks[i], board[i])
    /\ ReadsOutside(ranks[patternIndex], 1, board[patternIndex])

\* add_fen_pattern on the pattern of the run.
AddFenPatternInMemory ==
  /\ fenmatch # Unused
  /\ fenmatch.at = "pattern"
  /\ fenmatch' =
       [fenmatch EXCEPT
          !.at = "added",
          !.written = RankSlotsWritten(fenmatch.fen_pattern),
          !.ok = ScanOf(fenmatch.fen_pattern).ok,
          !.ranks = IF ScanOf(fenmatch.fen_pattern).ok
                    THEN ScanOf(fenmatch.fen_pattern).ranks
                    ELSE <<>>]
  /\ UNCHANGED besideFen

\* pattern_match_board on a board, the pattern accepted.
MatchBoardInMemory ==
  /\ fenmatch # Unused
  /\ fenmatch.at = "added"
  /\ fenmatch.ok
  /\ \E board \in [1..BOARDSIZE -> [1..BOARDSIZE -> {"_", "P"}]] :
       fenmatch' =
         [fenmatch EXCEPT
            !.at = "matched",
            !.board = board,
            !.outside = BoardReadsOutside(fenmatch.ranks, board)]
  /\ UNCHANGED besideFen

NextFenMemory == AddFenPatternInMemory \/ MatchBoardInMemory

\* Any pattern string of the characters that matter to the scan.
FenPatternChars == {"/", CCL_START, CCL_END, NCCL, "P"}

FenPatternStrings == SeqsUpTo(FenPatternChars, MaxFenPatternLength)

InitFenMemory ==
  /\ DriverIdle
  /\ ArgsIdle
  /\ VariationIdle
  /\ MaterialIdle
  /\ WriterIdle
  /\ TagsIdle
  /\ \E fen_pattern \in FenPatternStrings :
       fenmatch = [at |-> "pattern", fen_pattern |-> fen_pattern,
                   written |-> {}, ok |-> FALSE, ranks |-> <<>>,
                   board |-> <<>>, outside |-> FALSE]

SpecFenMemory == InitFenMemory /\ [][NextFenMemory]_vars

\* C29: add_fen_pattern on any pattern string stores ranks in the
\* BOARDSIZE slots only, and pattern_match_board on any board against any
\* accepted pattern reads no character beyond the terminator of a rank.
C29_FenModuleMemorySafe ==
  (fenmatch # Unused /\ fenmatch.at \in {"added", "matched"})
    => /\ fenmatch.written \subseteq 0..(BOARDSIZE - 1)
       /\ ~fenmatch.outside

\* Every "[" of the rank has its "]" behind it in the rank.
ClosuresClosed(rank) ==
  \A i \in 1..Len(rank) :
    rank[i] = CCL_START => \E j \in (i + 1)..Len(rank) : rank[j] = CCL_END

\* An accepted pattern whose closures are closed in their ranks is matched
\* within its strings.
ClosedPatternsReadInside ==
  (/\ fenmatch # Unused
   /\ fenmatch.at = "matched"
   /\ \A i \in 1..Len(fenmatch.ranks) : ClosuresClosed(fenmatch.ranks[i]))
    => ~fenmatch.outside

\* A pattern with more than BOARDSIZE ranks: the rank after the last slot
\* is stored behind the array before the pattern is refused.
RankStoredBehindArray ==
  /\ fenmatch # Unused
  /\ fenmatch.at = "added"
  /\ ~fenmatch.ok
  /\ BOARDSIZE \in fenmatch.written

\* A closure left open at the end of a rank is accepted, and a square that
\* matches it sends matchhere past the terminator of the rank.
OpenClosureReadBeyond ==
  /\ fenmatch # Unused
  /\ fenmatch.at = "matched"
  /\ fenmatch.outside
  /\ \E i \in 1..Len(fenmatch.ranks) : ~ClosuresClosed(fenmatch.ranks[i])

(***************************************************************************)
(* The user's tag order: add_to_output_tag_order (output.c), called by     *)
(* process_roster_line for each tag of a roster file.  TagOrder is an      *)
(* array of tag_order_space ints, slot i of the code being TagOrder[i + 1] *)
(* here; a tag is a number from 0, the terminator is -1, and a slot that   *)
(* was never written holds Uninitialised.  behind is the int that follows  *)
(* the array in memory.                                                    *)
(***************************************************************************)
MaxRosterTags == 12
MaxDuplicateLines == 1

\* An int that is neither a tag nor the terminator.
Uninitialised == -1 - MaxRosterTags

\* ARRAY_SIZE(DefaultTagOrder): the tags and the -1 that ends them.
DefaultTagOrderSize == Len(DefaultTagOrder) + 1

\* "Allocate some more."
TagOrderIncrement == 10

\* TagOrder[i]: inside the array, or the int behind it.
TagOrderSlot(t, i) ==
  IF i < t.tag_order_space THEN t.TagOrder[i + 1] ELSE t.behind

\* The first allocation, when TagOrder is NULL.
TagOrderAllocated(t) ==
  IF t.tag_order_space = 0
  THEN [t EXCEPT !.tag_order_space = DefaultTagOrderSize,
                 !.TagOrder = [i \in 1..DefaultTagOrderSize |->
                                 IF i = 1 THEN -1 ELSE Uninitialised]]
  ELSE t

\* The for loop: the index of the terminator or of the tag.
RECURSIVE TagOrderIndex(_, _, _)
TagOrderIndex(t, tag, tag_index) ==
  IF TagOrderSlot(t, tag_index) # -1 /\ TagOrderSlot(t, tag_index) # tag
  THEN TagOrderIndex(t, tag, tag_index + 1)
  ELSE tag_index

\* realloc_or_die when tag_index >= tag_order_space.
TagOrderGrown(t, tag_index) ==
  IF tag_index >= t.tag_order_space
  THEN [t EXCEPT !.tag_order_space = @ + TagOrderIncrement,
                 !.TagOrder = @ \o [i \in 1..TagOrderIncrement |->
                                      Uninitialised],
                 !.behind = Uninitialised]
  ELSE t

\* TagOrder[i] = value, recorded with the capacity at the time.
TagOrderStore(t, i, value) ==
  IF i < t.tag_order_space
  THEN [t EXCEPT !.TagOrder[i + 1] = value,
                 !.written = Append(@, <<i, t.tag_order_space>>)]
  ELSE [t EXCEPT !.behind = value,
                 !.written = Append(@, <<i, t.tag_order_space>>)]

\* The tag is put at tag_index and the terminator behind it.
TagOrderAppended(t, tag, tag_index) ==
  TagOrderStore(TagOrderStore(t, tag_index, tag), tag_index + 1, -1)

\* add_to_output_tag_order once the place is found.
AddAtIndex(t, tag, tag_index) ==
  IF TagOrderSlot(t, tag_index) = -1
  THEN TagOrderAppended(TagOrderGrown(t, tag_index), tag, tag_index)
  ELSE [t EXCEPT !.duplicates = @ + 1]

AddToOutputTagOrder(t, tag) ==
  AddAtIndex([TagOrderAllocated(t) EXCEPT !.written = <<>>], tag,
             TagOrderIndex(TagOrderAllocated(t), tag, 0))

\* The tags of the user's order, up to the terminator.
RECURSIVE UserTagOrder(_, _)
UserTagOrder(t, i) ==
  IF i > t.tag_order_space \/ TagOrderSlot(t, i) = -1 THEN <<>>
  ELSE <<TagOrderSlot(t, i)>> \o UserTagOrder(t, i + 1)

\* The terminator is behind the array: the loop reads it there.
TerminatorBehind(t) ==
  /\ t.tag_order_space > 0
  /\ \A i \in 0..(t.tag_order_space - 1) : TagOrderSlot(t, i) # -1

\* process_roster_line with a tag.  The tag is one already in the order or
\* one of the two lowest not in it.  Once the terminator is behind the
\* array what the next call reads there is not defined: either the -1 is
\* still there, or the memory has been used for something else.
RosterTagOf(order, tag) ==
  \/ \E i \in 1..Len(order) : order[i] = tag
  \/ Cardinality({other \in 0..(tag - 1) :
                    \A i \in 1..Len(order) : order[i] # other}) <= 1

ProcessRosterLine ==
  /\ tagout # Unused
  /\ tagout.kind = "order"
  /\ ~tagout.undefined
  /\ tagout.duplicates < MaxDuplicateLines
  /\ \/ \E tag \in 0..(MaxRosterTags - 1) :
          /\ RosterTagOf(UserTagOrder(tagout, 0), tag)
          /\ tagout' = AddToOutputTagOrder(tagout, tag)
     \/ /\ TerminatorBehind(tagout)
        /\ tagout' = [tagout EXCEPT !.undefined = TRUE]
  /\ UNCHANGED besideTags

NextTagOrder == ProcessRosterLine

InitTagOrder ==
  /\ DriverIdle
  /\ ArgsIdle
  /\ FenIdle
  /\ VariationIdle
  /\ MaterialIdle
  /\ WriterIdle
  /\ tagout = [ kind |-> "order", TagOrder |-> <<>>, tag_order_space |-> 0,
                behind |-> Uninitialised, written |-> <<>>,
                duplicates |-> 0, undefined |-> FALSE ]

SpecTagOrder == InitTagOrder /\ [][NextTagOrder]_vars

\* add_to_output_tag_order has been called and the memory is as it left it.
TagOrderSet ==
  /\ tagout # Unused
  /\ tagout.kind = "order"
  /\ tagout.tag_order_space > 0
  /\ ~tagout.undefined

Distinct(order) ==
  \A i, j \in 1..Len(order) : i # j => order[i] # order[j]

\* C30: after any sequence of calls the user tag order is a list of
\* distinct tags ended by -1 inside the allocated array, and no call has
\* written at an index at or above the capacity of the array.
C30_TagOrderWithinArray ==
  TagOrderSet =>
    /\ ~TerminatorBehind(tagout)
    /\ Distinct(UserTagOrder(tagout, 0))
    /\ \A w \in 1..Len(tagout.written) :
         tagout.written[w][1] < tagout.written[w][2]

\* The tags of the order are distinct, and while the order holds fewer
\* tags than the array has slots, order and terminator are inside it.
TagOrderDistinctAndInsideBelowCapacity ==
  TagOrderSet =>
    /\ Distinct(UserTagOrder(tagout, 0))
    /\ Len(UserTagOrder(tagout, 0)) < tagout.tag_order_space =>
         /\ ~TerminatorBehind(tagout)
         /\ \A w \in 1..Len(tagout.written) :
              tagout.written[w][1] < tagout.written[w][2]

\* The order holds as many tags as the array has slots: the last call put
\* the terminator behind the array.
TerminatorWrittenBehindArray ==
  /\ TagOrderSet
  /\ Len(UserTagOrder(tagout, 0)) = tagout.tag_order_space
  /\ \E w \in 1..Len(tagout.written) :
       /\ tagout.written[w] = <<tagout.tag_order_space, tagout.tag_order_space>>

====
